---- MODULE Spec2Model ----
(***************************************************************************)
(* Model of mc-protocol: the Segment wire codec (src/segment), the record  *)
(* codecs and the dispatcher generated by define_protocol!                  *)
(* (src/protocol/mod.rs), driven by the grammar of the crate's own test     *)
(* (src/lib.rs) and by small grammars given to the macro as input.          *)
(***************************************************************************)
EXTENDS Integers, Sequences, FiniteSets, TLC

(***************************************************************************)
(* Bounds of the exploration.                                               *)
(***************************************************************************)
\* u8 field values are drawn from 0..MaxByte
MaxByte == 2
\* the bytes of an input stream are drawn from 0..MaxWire
MaxWire == 1
\* input streams hold at most MaxLen bytes
MaxLen == 3
\* a bounded writer accepts at most MaxCap bytes before it fails
MaxCap == 3

\* the packets sent over one stream
MaxPackets == 2

Bytes == 0..MaxByte

WireBytes == 0..MaxWire

(***************************************************************************)
(* State and Direction, the lookup keys of the dispatcher.                  *)
(***************************************************************************)
State == {"Handshaking", "Status", "Login", "Play"}
Direction == {"ClientBound", "ServerBound"}

\* opcodes tried against the dispatcher (id: i32), one of them negative
Ids == {-1, 0, 1, 2}

(***************************************************************************)
(* Byte streams.  A reader is any R: std::io::Read: the bytes it will       *)
(* deliver, the position reached, and the position (if any) at which the    *)
(* underlying stream reports an I/O failure.  A writer is any               *)
(* W: std::io::Write: the bytes accepted so far, the number of bytes it     *)
(* accepts, and the error it reports once that number is reached.           *)
(***************************************************************************)
NoFault == -1

RECURSIVE SeqsUpTo(_, _)
SeqsUpTo(S, n) ==
    IF n = 0 THEN {<<>>}
    ELSE LET shorter == SeqsUpTo(S, n - 1)
         IN shorter \cup {Append(s, b) : s \in {t \in shorter : Len(t) = n - 1}, b \in S}

Readers ==
    {[data |-> d, pos |-> 0, failAt |-> k] :
        d \in SeqsUpTo(WireBytes, MaxLen), k \in {NoFault} \cup (0..(MaxLen - 1))}

ReaderOver(bytes) == [data |-> bytes, pos |-> 0, failAt |-> NoFault]

EmptyReader == ReaderOver(<<>>)

Writers ==
    {[buf |-> <<>>, cap |-> c, err |-> e] : c \in 0..MaxCap, e \in {"WriteZero", "Other"}}
    \cup {[buf |-> <<>>, cap |-> MaxCap + 1, err |-> "WriteZero"]}

EmptyWriter == [buf |-> <<>>, cap |-> 0, err |-> "WriteZero"]

\* byteorder's read_u8: read_exact of one byte
read_u8(reader) ==
    IF reader.failAt = reader.pos
    THEN [res |-> "Other", val |-> 0, reader |-> reader]
    ELSE IF reader.pos >= Len(reader.data)
    THEN [res |-> "UnexpectedEof", val |-> 0, reader |-> reader]
    ELSE [res |-> "Ok", val |-> reader.data[reader.pos + 1],
          reader |-> [reader EXCEPT !.pos = @ + 1]]

\* byteorder's write_u8: write_all of one byte
write_u8(writer, b) ==
    IF Len(writer.buf) >= writer.cap
    THEN [res |-> writer.err, writer |-> writer]
    ELSE [res |-> "Ok", writer |-> [writer EXCEPT !.buf = Append(@, b % 256)]]

(***************************************************************************)
(* Segment for the primitive types (num.rs).  read_from_stream gets the     *)
(* receiver's current value and returns the new one; on an error the        *)
(* receiver keeps its value.                                                *)
(***************************************************************************)
\* Option<T>
None == <<>>
Some(x) == <<x>>

\* the Option<T> types of the fields of Proto_1_17 modelled here
FieldOptionTypes == {"Option<VarInt>", "Option<String>", "Option<Position>"}

FieldInner(ty) ==
    CASE ty = "Option<VarInt>" -> "VarInt"
      [] ty = "Option<String>" -> "String"
      [] ty = "Option<Position>" -> "Position"

\* Default::default() of a field's type
Default(ty) ==
    CASE ty = "bool" -> FALSE
      [] ty = "String" -> <<>>
      [] ty \in FieldOptionTypes -> None
      [] OTHER -> 0

\* the values of a type that is no Option, within the bounds
PlainValues(ty) ==
    CASE ty = "bool" -> BOOLEAN
      [] ty = "String" -> {<<>>, <<1>>}
      [] ty = "Position" -> {0, 1}
      [] OTHER -> Bytes

TypeValues(ty) ==
    IF ty \in FieldOptionTypes
    THEN {None} \cup {Some(x) : x \in PlainValues(FieldInner(ty))}
    ELSE PlainValues(ty)

\* bool_read_from_stream comparing the byte with 1 instead of with 0
bool_read_only_one_is_true(cur, reader) ==
    LET r == read_u8(reader)
    IN IF r.res # "Ok" THEN [res |-> r.res, val |-> cur, reader |-> r.reader]
       ELSE [res |-> "Ok", val |-> (r.val = 1), reader |-> r.reader]

bool_read_from_stream(cur, reader) ==
    LET r == read_u8(reader)
    IN IF r.res # "Ok" THEN [res |-> r.res, val |-> cur, reader |-> r.reader]
       ELSE [res |-> "Ok", val |-> (r.val # 0), reader |-> r.reader]

bool_write_to_stream(val, writer) == write_u8(writer, IF val THEN 1 ELSE 0)

u8_read_from_stream(cur, reader) ==
    LET r == read_u8(reader)
    IN IF r.res # "Ok" THEN [res |-> r.res, val |-> cur, reader |-> r.reader]
       ELSE [res |-> "Ok", val |-> r.val, reader |-> r.reader]

u8_write_to_stream(val, writer) == write_u8(writer, val)

(***************************************************************************)
(* The fixed-width integers (num.rs) over byteorder's BigEndian calls, and  *)
(* the bridge to steven_protocol's Serializable (steven/mod.rs).            *)
(***************************************************************************)
IntTypes == {"u8", "i8", "u16", "i16", "u32", "i32", "u64", "i64"}

PrimTypes == {"bool"} \cup IntTypes

\* Width with the i64 impl calling read_i32 / write_i32
Width_i64_as_i32(ty) ==
    CASE ty \in {"bool", "u8", "i8"} -> 1
      [] ty \in {"u16", "i16"} -> 2
      [] ty \in {"u32", "i32", "i64"} -> 4
      [] ty = "u64" -> 8

\* the byteorder call each impl makes: read_u8 / read_u16 / read_u32 / read_u64 ...
Width(ty) ==
    CASE ty \in {"bool", "u8", "i8"} -> 1
      [] ty \in {"u16", "i16"} -> 2
      [] ty \in {"u32", "i32"} -> 4
      [] ty \in {"u64", "i64"} -> 8

IsSigned(ty) == ty \in {"i8", "i16", "i32", "i64"}

\* read_exact filling what the stream lacks with zero bytes
RECURSIVE read_exact_zero_filled(_, _)
read_exact_zero_filled(reader, n) ==
    IF n = 0 THEN [res |-> "Ok", bytes |-> <<>>, reader |-> reader]
    ELSE LET b == read_u8(reader)
         IN IF b.res = "Other" THEN [res |-> b.res, bytes |-> <<>>, reader |-> b.reader]
            ELSE LET rest == read_exact_zero_filled(b.reader, n - 1)
                 IN [res |-> rest.res,
                     bytes |-> IF rest.res = "Ok"
                               THEN <<IF b.res = "Ok" THEN b.val ELSE 0>> \o rest.bytes
                               ELSE <<>>,
                     reader |-> rest.reader]

\* Read::read_exact: the bytes read before a failure stay consumed
RECURSIVE read_exact(_, _)
read_exact(reader, n) ==
    IF n = 0 THEN [res |-> "Ok", bytes |-> <<>>, reader |-> reader]
    ELSE LET b == read_u8(reader)
         IN IF b.res # "Ok" THEN [res |-> b.res, bytes |-> <<>>, reader |-> b.reader]
            ELSE LET rest == read_exact(b.reader, n - 1)
                 IN [res |-> rest.res,
                     bytes |-> IF rest.res = "Ok" THEN <<b.val>> \o rest.bytes ELSE <<>>,
                     reader |-> rest.reader]

\* Write::write_all: the bytes accepted before a failure stay written
RECURSIVE write_all(_, _)
write_all(writer, bytes) ==
    IF bytes = <<>> THEN [res |-> "Ok", writer |-> writer]
    ELSE LET w == write_u8(writer, Head(bytes))
         IN IF w.res # "Ok" THEN w ELSE write_all(w.writer, Tail(bytes))

\* to_be_bytes with the least significant byte first (LittleEndian)
RECURSIVE to_le_bytes(_, _)
to_le_bytes(x, n) ==
    IF n = 0 THEN <<>> ELSE <<x % 256>> \o to_le_bytes(x \div 256, n - 1)

\* BigEndian: the n low bytes of x in two's complement, most significant first
RECURSIVE to_be_bytes(_, _)
to_be_bytes(x, n) ==
    IF n = 0 THEN <<>> ELSE Append(to_be_bytes(x \div 256, n - 1), x % 256)

RECURSIVE from_be_bytes_unsigned(_)
from_be_bytes_unsigned(bytes) ==
    IF bytes = <<>> THEN 0
    ELSE from_be_bytes_unsigned(SubSeq(bytes, 1, Len(bytes) - 1)) * 256 + bytes[Len(bytes)]

\* BigEndian read, then `as iN` for the signed types
from_be_bytes(bytes, signed) ==
    IF signed /\ bytes[1] >= 128
    THEN from_be_bytes_unsigned(<<bytes[1] - 256>> \o Tail(bytes))
    ELSE from_be_bytes_unsigned(bytes)

\* `*self = <bytes as uN / iN>` once the read has succeeded; `?` returns before it
int_assign(ty, cur, r) ==
    IF r.res # "Ok" THEN [res |-> r.res, val |-> cur, reader |-> r.reader]
    ELSE [res |-> "Ok", val |-> from_be_bytes(r.bytes, IsSigned(ty)), reader |-> r.reader]

\* *self = reader.read_uN::<BigEndian>()?  /  read_iN
int_read_from_stream(ty, cur, reader) == int_assign(ty, cur, read_exact(reader, Width(ty)))

\* writer.write_uN::<BigEndian>(*self)?  /  write_iN
int_write_to_stream(ty, val, writer) == write_all(writer, to_be_bytes(val, Width(ty)))

\* steven_protocol's Serializable for LenPrefixed<u8, u8>: the length, then that
\* many elements
RECURSIVE read_elements(_, _)
read_elements(reader, n) ==
    IF n = 0 THEN [res |-> "Ok", val |-> <<>>, reader |-> reader]
    ELSE LET e == u8_read_from_stream(0, reader)
         IN IF e.res # "Ok" THEN [res |-> e.res, val |-> <<>>, reader |-> e.reader]
            ELSE LET rest == read_elements(e.reader, n - 1)
                 IN [res |-> rest.res,
                     val |-> IF rest.res = "Ok" THEN <<e.val>> \o rest.val ELSE <<>>,
                     reader |-> rest.reader]

Serializable_read_from(reader) ==
    LET len == u8_read_from_stream(0, reader)
    IN IF len.res # "Ok" THEN [res |-> len.res, val |-> <<>>, reader |-> len.reader]
       ELSE read_elements(len.reader, len.val)

Serializable_write_to(val, writer) == write_all(writer, <<Len(val)>> \o val)

\* convert_error handing on the kind of the error it was given
convert_error_keeps_kind(steven_error) == steven_error

\* io::Error::new(ErrorKind::Other, steven_error)
convert_error(steven_error) == "Other"

\* .map_err(convert_error)? and the assignment to *self that follows it
map_err_assign(cur, r) ==
    IF r.res # "Ok" THEN [res |-> convert_error(r.res), val |-> cur, reader |-> r.reader]
    ELSE [res |-> "Ok", val |-> r.val, reader |-> r.reader]

\* impl_serialize! taking the default value where Serializable::read_from fails
\* (unwrap_or_default in place of map_err and `?`)
impl_serialize_read_or_default(cur, reader) ==
    [map_err_assign(<<>>, Serializable_read_from(reader)) EXCEPT !.res = "Ok"]

\* impl_serialize!: *self = Serializable::read_from(reader).map_err(convert_error)?
impl_serialize_read_from_stream(cur, reader) ==
    map_err_assign(cur, Serializable_read_from(reader))

\* .map_err(convert_error)? on a write
map_err_written(w) ==
    IF w.res # "Ok" THEN [res |-> convert_error(w.res), writer |-> w.writer] ELSE w

\* impl_serialize!: Serializable::write_to(self, writer).map_err(convert_error)?
impl_serialize_write_to_stream(val, writer) ==
    map_err_written(Serializable_write_to(val, writer))

\* `*self = Some(t)` once T's read has succeeded; `?` returns before it
Some_assign(cur, r) ==
    IF r.res # "Ok" THEN [res |-> r.res, val |-> cur, reader |-> r.reader]
    ELSE [res |-> "Ok", val |-> Some(r.val), reader |-> r.reader]

(***************************************************************************)
(* The steven types of the fields of Proto_1_17 modelled here: VarInt,      *)
(* String and Position, each a Serializable bridged by impl_serialize!.     *)
(***************************************************************************)
\* what Serializable::read_from returns: the value, or the library's error
decoded(r, v) ==
    [res |-> r.res, val |-> IF r.res = "Ok" THEN v ELSE 0, reader |-> r.reader]

\* VarInt: 7 bits a byte, the low group first, the top bit set while more follow,
\* 5 bytes at most
RECURSIVE VarInt_read_from(_, _)
VarInt_read_from(reader, size) ==
    LET b == read_u8(reader)
    IN IF b.res # "Ok" THEN decoded(b, 0)
       ELSE IF b.val < 128 THEN decoded(b, b.val)
       ELSE IF size + 1 >= 5 THEN [res |-> "VarInt too big", val |-> 0, reader |-> b.reader]
       ELSE LET rest == VarInt_read_from(b.reader, size + 1)
            IN decoded(rest, (b.val % 128) + 128 * rest.val)

RECURSIVE VarInt_write_to(_, _)
VarInt_write_to(val, writer) ==
    IF val < 128 THEN write_u8(writer, val)
    ELSE LET w == write_u8(writer, (val % 128) + 128)
         IN IF w.res # "Ok" THEN w ELSE VarInt_write_to(val \div 128, w.writer)

\* the bytes of a String once its length has been read
String_bytes(len, r) ==
    IF len.res # "Ok" THEN [res |-> len.res, val |-> <<>>, reader |-> len.reader]
    ELSE [res |-> r.res, val |-> r.bytes, reader |-> r.reader]

\* String: its length in bytes as a VarInt, then the bytes
String_read_from(reader) ==
    String_bytes(VarInt_read_from(reader, 0),
                 read_exact(VarInt_read_from(reader, 0).reader,
                            VarInt_read_from(reader, 0).val))

String_write_to(val, writer) ==
    IF VarInt_write_to(Len(val), writer).res # "Ok" THEN VarInt_write_to(Len(val), writer)
    ELSE write_all(VarInt_write_to(Len(val), writer).writer, val)

\* Position: one u64, big-endian
Position_value(r) ==
    [res |-> r.res, val |-> IF r.res = "Ok" THEN from_be_bytes_unsigned(r.bytes) ELSE 0,
     reader |-> r.reader]

Position_read_from(reader) == Position_value(read_exact(reader, 8))

Position_write_to(val, writer) == write_all(writer, to_be_bytes(val, 8))

\* Segment for a field type that is no Option
Plain_read_from_stream(ty, cur, reader) ==
    CASE ty = "bool" -> bool_read_from_stream(cur, reader)
      [] ty = "VarInt" -> map_err_assign(cur, VarInt_read_from(reader, 0))
      [] ty = "String" -> map_err_assign(cur, String_read_from(reader))
      [] ty = "Position" -> map_err_assign(cur, Position_read_from(reader))
      [] OTHER -> u8_read_from_stream(cur, reader)

Plain_write_to_stream(ty, val, writer) ==
    CASE ty = "bool" -> bool_write_to_stream(val, writer)
      [] ty = "VarInt" -> map_err_written(VarInt_write_to(val, writer))
      [] ty = "String" -> map_err_written(String_write_to(val, writer))
      [] ty = "Position" -> map_err_written(Position_write_to(val, writer))
      [] OTHER -> u8_write_to_stream(val, writer)

\* Segment::read_from_stream / write_to_stream resolved on the field's type
Segment_read_from_stream(ty, cur, reader) ==
    IF ty \in FieldOptionTypes
    THEN Some_assign(cur, Plain_read_from_stream(FieldInner(ty), Default(FieldInner(ty)),
                                                 reader))
    ELSE Plain_read_from_stream(ty, cur, reader)

Segment_write_to_stream(ty, val, writer) ==
    IF ty \in FieldOptionTypes
    THEN IF val # None THEN Plain_write_to_stream(FieldInner(ty), val[1], writer)
         ELSE [res |-> "Ok", writer |-> writer]
    ELSE Plain_write_to_stream(ty, val, writer)

(***************************************************************************)
(* Grammars.  A grammar is the nested table the macro takes:                *)
(* state => direction => id => packet {field: type where |p| condition}.    *)
(***************************************************************************)
Always == "always"

Fd(n, t, c) == [name |-> n, ty |-> t, cond |-> c]
Pk(n, fs) == [name |-> n, fields |-> fs]
Arm(i, p) == [id |-> i, packet |-> p]
Dir(d, arms) == [direction |-> d, arms |-> arms]
St(s, dirs) == [state |-> s, dirs |-> dirs]

\* the `where |s|{...}` closures, applied to the whole record (&Self)
EvalCondition(cond, self) ==
    CASE cond = Always -> TRUE
      [] cond = "s.test2 > 1" -> self.test2 > 1
      [] cond = "p.flag" -> self.flag
      [] cond = "p.has_id" -> self.has_id
      [] cond = "p.flags & 0x01 != 0" -> self.flags % 2 = 1
      [] cond = "p.flags & 0x02 != 0" -> (self.flags \div 2) % 2 = 1

\* the closure whose body is unimplemented!(..): calling it panics
Unimplemented == "unimplemented!"

Panics(cond) == cond = Unimplemented

\* the part of Proto_1_17 (v1_17.rs) that is run here
SculkVibrationSignalFields ==
    <<Fd("source", "Position", Always), Fd("destination_id", "String", Always),
      Fd("destination_pos", "Option<Position>", Unimplemented),
      Fd("arrival_ticks", "VarInt", Always)>>

AnimationFields == <<Fd("entity_id", "VarInt", Always), Fd("animation_id", "u8", Always)>>

\* SelectAdvancementTab with tab_id declared before the has_id it depends on
SelectAdvancementTab_id_first ==
    <<Fd("tab_id", "String", "p.has_id"), Fd("has_id", "bool", Always)>>

SelectAdvancementTabFields ==
    <<Fd("has_id", "bool", Always), Fd("tab_id", "String", "p.has_id")>>

StopSoundFields ==
    <<Fd("flags", "u8", Always), Fd("source", "Option<VarInt>", "p.flags & 0x01 != 0"),
      Fd("sound", "Option<String>", "p.flags & 0x02 != 0")>>

\* the fields of the record a closure reads through its argument
Reads(cond) ==
    CASE cond \in {Always, Unimplemented} -> {}
      [] cond = "s.test2 > 1" -> {"test2"}
      [] cond = "p.flag" -> {"flag"}
      [] cond = "p.has_target" -> {"has_target"}
      [] cond \in {"p.ty.0 == 2", "p.ty.0 == 0 || p.ty.0 == 2", "p.ty == \"EntityHorse\""} -> {"ty"}
      [] cond \in {"p.action.0 == 0", "p.action.0 == 1", "p.action.0 == 2", "p.action.0 == 3",
                   "p.action.0 == 0 || p.action.0 == 2", "p.action.0 == 0 || p.action.0 == 3",
                   "p.action.0 == 0 || p.action.0 == 4", "p.action.0 == 0 || p.action.0 == 5",
                   "p.action != 1"} -> {"action"}
      [] cond \in {"p.particle_id == 3 || p.particle_id == 23", "p.particle_id == 14",
                   "p.particle_id == 32"} -> {"particle_id"}
      [] cond = "p.columns > 0" -> {"columns"}
      [] cond \in {"p.event.0 == 1", "p.event.0 == 2", "p.event.0 == 1 || p.event.0 == 2"} ->
            {"event"}
      [] cond = "p.is_entity" -> {"is_entity"}
      [] cond = "p.has_id" -> {"has_id"}
      [] cond \in {"p.mode == 0 || p.mode == 2", "p.mode == 0 || p.mode == 3 || p.mode == 4"} ->
            {"mode"}
      [] cond \in {"p.flags & 0x01 != 0", "p.flags & 0x02 != 0"} -> {"flags"}

\* every record of Proto_1_17 that has a field with a `where` closure (v1_17.rs)
ConditionalRecords17 ==
    {Pk("TabComplete",
        <<Fd("text", "String", Always), Fd("assume_command", "bool", Always),
         Fd("has_target", "bool", Always), Fd("target", "Option<Position>", "p.has_target")>>),
     Pk("UseEntity",
        <<Fd("target_id", "VarInt", Always), Fd("ty", "VarInt", Always),
         Fd("target_x", "f32", "p.ty.0 == 2"), Fd("target_y", "f32", "p.ty.0 == 2"),
         Fd("target_z", "f32", "p.ty.0 == 2"),
         Fd("hand", "VarInt", "p.ty.0 == 0 || p.ty.0 == 2"), Fd("sneaking", "bool", Always)>>),
     Pk("AdvancementTab",
        <<Fd("action", "VarInt", Always), Fd("tab_id", "String", "p.action.0 == 0")>>),
     Pk("SculkVibrationSignal", SculkVibrationSignalFields),
     Pk("BossBar",
        <<Fd("uuid", "UUID", Always), Fd("action", "VarInt", Always),
         Fd("title", "format::Component", "p.action.0 == 0 || p.action.0 == 3"),
         Fd("health", "f32", "p.action.0 == 0 || p.action.0 == 2"),
         Fd("color", "VarInt", "p.action.0 == 0 || p.action.0 == 4"),
         Fd("style", "VarInt", "p.action.0 == 0 || p.action.0 == 4"),
         Fd("flags", "u8", "p.action.0 == 0 || p.action.0 == 5")>>),
     Pk("Particle",
        <<Fd("particle_id", "i32", Always), Fd("long_distance", "bool", Always),
         Fd("x", "f64", Always), Fd("y", "f64", Always), Fd("z", "f64", Always),
         Fd("offset_x", "f32", Always), Fd("offset_y", "f32", Always),
         Fd("offset_z", "f32", Always), Fd("speed", "f32", Always), Fd("count", "i32", Always),
         Fd("block_state", "VarInt", "p.particle_id == 3 || p.particle_id == 23"),
         Fd("red", "f32", "p.particle_id == 14"), Fd("green", "f32", "p.particle_id == 14"),
         Fd("blue", "f32", "p.particle_id == 14"), Fd("scale", "f32", "p.particle_id == 14"),
         Fd("item", "Option<nbt::NamedTag>", "p.particle_id == 32")>>),
     Pk("Maps",
        <<Fd("item_damage", "VarInt", Always), Fd("scale", "i8", Always),
         Fd("tracking_position", "bool", Always), Fd("locked", "bool", Always),
         Fd("icons", "LenPrefixed<VarInt, packet::MapIcon>", Always),
         Fd("columns", "u8", Always),
         Fd("rows", "Option<u8>", "p.columns > 0"), Fd("x", "Option<u8>", "p.columns > 0"),
         Fd("z", "Option<u8>", "p.columns > 0"),
         Fd("data", "Option<LenPrefixedBytes<VarInt>>", "p.columns > 0")>>),
     Pk("WindowOpen",
        <<Fd("id", "u8", Always), Fd("ty", "String", Always),
         Fd("title", "format::Component", Always), Fd("slot_count", "u8", Always),
         Fd("entity_id", "i32", "p.ty == \"EntityHorse\"")>>),
     Pk("CombatEvent",
        <<Fd("event", "VarInt", Always),
         Fd("direction", "Option<VarInt>", "p.event.0 == 1"),
         Fd("player_id", "Option<VarInt>", "p.event.0 == 2"),
         Fd("entity_id", "Option<i32>", "p.event.0 == 1 || p.event.0 == 2"),
         Fd("message", "Option<format::Component>", "p.event.0 == 2")>>),
     Pk("FacePlayer",
        <<Fd("feet_eyes", "VarInt", Always), Fd("target_x", "f64", Always),
         Fd("target_y", "f64", Always), Fd("target_z", "f64", Always),
         Fd("is_entity", "bool", Always),
         Fd("entity_id", "Option<VarInt>", "p.is_entity"),
         Fd("entity_feet_eyes", "Option<VarInt>", "p.is_entity")>>),
     Pk("UnlockRecipes",
        <<Fd("action", "VarInt", Always), Fd("crafting_book_open", "bool", Always),
         Fd("filtering_craftable", "bool", Always), Fd("smelting_book_open", "bool", Always),
         Fd("filtering_smeltable", "bool", Always), Fd("blast_furnace_open", "bool", Always),
         Fd("filtering_blast_furnace", "bool", Always), Fd("smoker_open", "bool", Always),
         Fd("filtering_smoker", "bool", Always),
         Fd("recipe_ids", "LenPrefixed<VarInt, String>", Always),
         Fd("recipe_ids2", "LenPrefixed<VarInt, String>", "p.action.0 == 0")>>),
     Pk("SelectAdvancementTab", SelectAdvancementTabFields),
     Pk("ScoreboardObjective",
        <<Fd("name", "String", Always), Fd("mode", "u8", Always),
         Fd("value", "String", "p.mode == 0 || p.mode == 2"),
         Fd("ty", "String", "p.mode == 0 || p.mode == 2")>>),
     Pk("Teams",
        <<Fd("name", "String", Always), Fd("mode", "u8", Always),
         Fd("display_name", "Option<String>", "p.mode == 0 || p.mode == 2"),
         Fd("flags", "Option<u8>", "p.mode == 0 || p.mode == 2"),
         Fd("name_tag_visibility", "Option<String>", "p.mode == 0 || p.mode == 2"),
         Fd("collision_rule", "Option<String>", "p.mode == 0 || p.mode == 2"),
         Fd("formatting", "Option<VarInt>", "p.mode == 0 || p.mode == 2"),
         Fd("prefix", "Option<String>", "p.mode == 0 || p.mode == 2"),
         Fd("suffix", "Option<String>", "p.mode == 0 || p.mode == 2"),
         Fd("players", "Option<LenPrefixed<VarInt, String>>",
         "p.mode == 0 || p.mode == 3 || p.mode == 4")>>),
     Pk("UpdateScore",
        <<Fd("name", "String", Always), Fd("action", "u8", Always),
         Fd("object_name", "String", Always), Fd("value", "Option<VarInt>", "p.action != 1")>>),
     Pk("Title",
        <<Fd("action", "VarInt", Always),
         Fd("title", "Option<format::Component>", "p.action.0 == 0"),
         Fd("sub_title", "Option<format::Component>", "p.action.0 == 1"),
         Fd("action_bar_text", "Option<String>", "p.action.0 == 2"),
         Fd("fade_in", "Option<i32>", "p.action.0 == 3"),
         Fd("fade_stay", "Option<i32>", "p.action.0 == 3"),
         Fd("fade_out", "Option<i32>", "p.action.0 == 3")>>),
     Pk("StopSound", StopSoundFields)}

Proto_1_17 ==
    <<St("Status",
         <<Dir("ServerBound", <<Arm(0, Pk("StatusRequest", <<>>))>>)>>),
      St("Play",
         <<Dir("ClientBound",
               <<Arm(5, Pk("SculkVibrationSignal", SculkVibrationSignalFields)),
                 Arm(6, Pk("Animation", AnimationFields)),
                 Arm(52, Pk("EnterCombatEvent", <<>>)),
                 Arm(64, Pk("SelectAdvancementTab", SelectAdvancementTabFields)),
                 Arm(93, Pk("StopSound", StopSoundFields))>>)>>)>>

HandshakingFields ==
    <<Fd("test", "u8", Always), Fd("test2", "u8", "s.test2 > 1"), Fd("test3", "u8", Always)>>

\* the grammar of tests::test_define_protocol
Proto_1_17_1 ==
    <<St("Handshaking",
         <<Dir("ClientBound",
               <<Arm(0, Pk("HandshakingPacket", HandshakingFields)),
                 Arm(1, Pk("TestPacket", <<>>))>>),
           Dir("ServerBound",
               <<Arm(0, Pk("HandshakingPacketTwo", HandshakingFields)),
                 Arm(1, Pk("TestPacketTwo", <<>>))>>)>>),
      St("Status", <<Dir("ClientBound", <<Arm(0, Pk("StatusPlaceholder", <<>>))>>)>>),
      St("Login", <<Dir("ClientBound", <<Arm(0, Pk("LoginPlaceholder", <<>>))>>)>>),
      St("Play", <<Dir("ClientBound", <<Arm(0, Pk("PlayPlaceholder", <<>>))>>)>>)>>

\* one record whose field is present when an earlier flag says so
FlagGrammar ==
    <<St("Handshaking",
         <<Dir("ServerBound",
               <<Arm(0, Pk("FlagValue",
                           <<Fd("flag", "bool", Always), Fd("value", "u8", "p.flag")>>))>>)>>)>>

\* the same opcode twice in one (state, direction) block, two record names
DuplicateOpcodeGrammar ==
    <<St("Status",
         <<Dir("ClientBound",
               <<Arm(0, Pk("First", <<Fd("a", "u8", Always)>>)),
                 Arm(0, Pk("Second", <<Fd("a", "u8", Always), Fd("b", "u8", Always)>>))>>)>>)>>

\* the same record name twice
DuplicateNameGrammar ==
    <<St("Status",
         <<Dir("ClientBound",
               <<Arm(0, Pk("First", <<Fd("a", "u8", Always)>>)),
                 Arm(1, Pk("First", <<Fd("a", "u8", Always)>>))>>)>>)>>

Grammars == {Proto_1_17_1, FlagGrammar, DuplicateOpcodeGrammar, DuplicateNameGrammar}

\* every entry of a grammar as (state, direction, id, packet), in declaration order
RECURSIVE Flatten(_)
Flatten(seqs) == IF seqs = <<>> THEN <<>> ELSE Head(seqs) \o Flatten(Tail(seqs))

DirEntries(s, d) ==
    [i \in 1..Len(d.arms) |->
        [state |-> s, direction |-> d.direction, id |-> d.arms[i].id, packet |-> d.arms[i].packet]]

StateEntries(st) == Flatten([j \in 1..Len(st.dirs) |-> DirEntries(st.state, st.dirs[j])])

Entries(g) == Flatten([k \in 1..Len(g) |-> StateEntries(g[k])])

PacketTypes(g) == LET es == Entries(g) IN {es[i].packet : i \in 1..Len(es)}

(***************************************************************************)
(* The generated record: struct, Default, Segment.                          *)
(***************************************************************************)
FieldNames(pk) == {pk.fields[i].name : i \in 1..Len(pk.fields)}

FieldOf(pk, n) == pk.fields[CHOOSE i \in 1..Len(pk.fields) : pk.fields[i].name = n]

\* #[derive(Default)]
DefaultPacket(pk) ==
    [name |-> pk.name, f |-> [n \in FieldNames(pk) |-> Default(FieldOf(pk, n).ty)]]

\* every value of the struct's first i fields within the bounds
RECURSIVE FieldMaps(_, _)
FieldMaps(fields, i) ==
    IF i = 0 THEN {<<>>}
    ELSE {[n \in DOMAIN h \cup {fields[i].name} |-> IF n = fields[i].name THEN v ELSE h[n]] :
             h \in FieldMaps(fields, i - 1), v \in TypeValues(fields[i].ty)}

\* every instance of the struct within the bounds
Instances(pk) == {[name |-> pk.name, f |-> fv] : fv \in FieldMaps(pk.fields, Len(pk.fields))}

NoPacket == [name |-> "None", f |-> <<>>]

Ev(kind, i, hit, res, pos, view) ==
    [kind |-> kind, field |-> i, hit |-> hit, res |-> res, pos |-> pos, view |-> view]

\* the Segment call of a field's statement, made when the field is present
field_codec(fd, cur, reader, present) ==
    IF present THEN Segment_read_from_stream(fd.ty, cur, reader)
    ELSE [res |-> "Ok", val |-> cur, reader |-> reader]

\* what a field's statement leaves: `?` returns on an error, else the field is assigned
field_read(fd, i, st, present, r) ==
    LET t1 == Append(st.trace, Ev("pred", i, present, "Ok", st.reader.pos, st.self.f))
        t2 == IF present
              THEN Append(t1, Ev("codec", i, TRUE, r.res, r.reader.pos, st.self.f))
              ELSE t1
    IN IF r.res # "Ok"
       THEN [res |-> r.res, self |-> st.self, reader |-> r.reader, trace |-> t2]
       ELSE LET self2 == [st.self EXCEPT !.f[fd.name] = r.val]
            IN [res |-> "Ok", self |-> self2, reader |-> r.reader,
                trace |-> Append(t2, Ev("assign", i, present, "Ok", r.reader.pos, self2.f))]

\* read_field decoding in place: an absent field keeps what the receiver held
read_field_in_place(fd, i, st) ==
    field_read(fd, i, st, EvalCondition(fd.cond, st.self.f),
               field_codec(fd, st.self.f[fd.name], st.reader,
                           EvalCondition(fd.cond, st.self.f)))

\* the receiver with one field set to its default
cleared(fd, st) == [st EXCEPT !.self.f[fd.name] = Default(fd.ty)]

\* read_field resetting the field to its default before its condition is evaluated
read_field_reset_first(fd, i, st) ==
    field_read(fd, i, cleared(fd, st), EvalCondition(fd.cond, cleared(fd, st).self.f),
               field_codec(fd, Default(fd.ty), st.reader,
                           EvalCondition(fd.cond, cleared(fd, st).self.f)))

\* the statement of a field whose closure panics: the call unwinds there
panicked(i, st, pos) ==
    [st EXCEPT !.res = "panic",
               !.trace = Append(@, Ev("pred", i, FALSE, "panic", pos, st.self.f))]

\* one `self.$field = { ... };` statement of read_from_stream
read_field(fd, i, st) ==
    IF Panics(fd.cond) THEN panicked(i, st, st.reader.pos)
    ELSE field_read(fd, i, st, EvalCondition(fd.cond, st.self.f),
                    field_codec(fd, Default(fd.ty), st.reader,
                                EvalCondition(fd.cond, st.self.f)))

RECURSIVE read_fields_keep_going(_, _, _)
RECURSIVE read_fields_retrying(_, _, _)
RECURSIVE read_fields(_, _, _)

\* the next field is read whatever the last one returned; the first error is kept
going_on(fields, i, res, s2) ==
    read_fields_keep_going(fields, i + 1, IF res # "Ok" THEN [s2 EXCEPT !.res = res] ELSE s2)

\* read_fields going on to the next field after a field's codec failed
read_fields_keep_going(fields, i, st) ==
    IF i > Len(fields) THEN st
    ELSE going_on(fields, i, st.res, read_field(fields[i], i, [st EXCEPT !.res = "Ok"]))

\* a field whose statement failed is gone over a second time
retried(fields, i, s3) ==
    IF s3.res # "Ok" THEN s3 ELSE read_fields_retrying(fields, i + 1, s3)

again(fd, i, s2) == IF s2.res # "Ok" THEN read_field(fd, i, [s2 EXCEPT !.res = "Ok"]) ELSE s2

\* read_fields trying a field once more when its codec has failed
read_fields_retrying(fields, i, st) ==
    IF i > Len(fields) THEN st
    ELSE retried(fields, i, again(fields[i], i, read_field(fields[i], i, st)))

\* `?`: the first error ends the call, else the next statement runs
then_read(fields, i, s2) == IF s2.res # "Ok" THEN s2 ELSE read_fields(fields, i + 1, s2)

read_fields(fields, i, st) ==
    IF i > Len(fields) THEN st ELSE then_read(fields, i, read_field(fields[i], i, st))

\* packet_read_from_stream taking one byte off the stream before the first field
packet_read_after_one_byte(pk, self, reader) ==
    IF read_u8(reader).res # "Ok"
    THEN [res |-> read_u8(reader).res, self |-> self, reader |-> reader, trace |-> <<>>]
    ELSE read_fields(pk.fields, 1, [res |-> "Ok", self |-> self,
                                    reader |-> read_u8(reader).reader, trace |-> <<>>])

\* <$packet as Segment>::read_from_stream(&mut self, reader)
packet_read_from_stream(pk, self, reader) ==
    read_fields(pk.fields, 1, [res |-> "Ok", self |-> self, reader |-> reader, trace |-> <<>>])

\* what a field's statement of write_to_stream leaves
field_written(i, st, present, w) ==
    LET t1 == Append(st.trace, Ev("pred", i, present, "Ok", Len(st.writer.buf), st.self.f))
        t2 == IF present
              THEN Append(t1, Ev("codec", i, TRUE, w.res, Len(w.writer.buf), st.self.f))
              ELSE t1
    IN [res |-> w.res, self |-> st.self, writer |-> w.writer, trace |-> t2]

\* one `if condition { write_to_stream(&self.$field, writer)?; }` of write_to_stream
write_field(fd, i, st) ==
    IF Panics(fd.cond) THEN panicked(i, st, Len(st.writer.buf))
    ELSE field_written(i, st, EvalCondition(fd.cond, st.self.f),
                       IF EvalCondition(fd.cond, st.self.f)
                       THEN Segment_write_to_stream(fd.ty, st.self.f[fd.name], st.writer)
                       ELSE [res |-> "Ok", writer |-> st.writer])

RECURSIVE write_fields(_, _, _)

\* `?`: the first error ends the call, else the next statement runs
then_write(fields, i, s2) == IF s2.res # "Ok" THEN s2 ELSE write_fields(fields, i + 1, s2)

write_fields(fields, i, st) ==
    IF i > Len(fields) THEN st ELSE then_write(fields, i, write_field(fields[i], i, st))

\* packet_write_to_stream putting the number of fields in front of them
packet_write_with_length(pk, self, writer) ==
    write_fields(pk.fields, 1,
                 [res |-> "Ok", self |-> self,
                  writer |-> write_u8(writer, Len(pk.fields)).writer, trace |-> <<>>])

\* <$packet as Segment>::write_to_stream(&self, writer)
packet_write_to_stream(pk, self, writer) ==
    write_fields(pk.fields, 1, [res |-> "Ok", self |-> self, writer |-> writer, trace |-> <<>>])

(***************************************************************************)
(* The macro's expansion: it compiles unless two structs (and two enum      *)
(* cases) get the same name; repeated match arms are allowed by             *)
(* #[allow(unreachable_patterns)].                                          *)
(***************************************************************************)
define_protocol(g) ==
    LET es == Entries(g)
    IN IF \A i, j \in 1..Len(es) : es[i].packet.name = es[j].packet.name => i = j
       THEN "ok" ELSE "error"

\* `match` takes the first arm whose pattern matches; 0 stands for the `_` arm
FirstArm(I) == IF I = {} THEN 0 ELSE CHOOSE i \in I : \A j \in I : i <= j

\* the `_` arm reporting an unknown key as an error
NoMatchIsError(reader) ==
    [res |-> "InvalidData", some |-> FALSE, p |-> NoPacket, reader |-> reader, trace |-> <<>>]

NoMatch(reader) ==
    [res |-> "Ok", some |-> FALSE, p |-> NoPacket, reader |-> reader, trace |-> <<>>]

\* a matched arm: `if let Err(e) = read_from_stream(&mut p, reader) { Err(e) }
\* else { Ok(Some(Self::$packet(p))) }`
matched(r) ==
    IF r.res # "Ok"
    THEN [res |-> r.res, some |-> FALSE, p |-> NoPacket, reader |-> r.reader, trace |-> r.trace]
    ELSE [res |-> "Ok", some |-> TRUE, p |-> r.self, reader |-> r.reader, trace |-> r.trace]

\* a matched arm returning Ok(Some(_)) whatever the decode returned
matched_unchecked(r) ==
    [res |-> "Ok", some |-> TRUE, p |-> r.self, reader |-> r.reader, trace |-> r.trace]

\* packet_by_id ignoring the outcome of the decode
packet_by_id_unchecked(g, state, direction, id, reader) ==
    LET si == FirstArm({i \in 1..Len(g) : g[i].state = state})
    IN IF si = 0 THEN NoMatch(reader)
       ELSE LET dirs == g[si].dirs
                di == FirstArm({i \in 1..Len(dirs) : dirs[i].direction = direction})
            IN IF di = 0 THEN NoMatch(reader)
               ELSE LET arms == dirs[di].arms
                        ai == FirstArm({i \in 1..Len(arms) : arms[i].id = id})
                    IN IF ai = 0 THEN NoMatch(reader)
                       ELSE matched_unchecked(
                                packet_read_from_stream(arms[ai].packet,
                                                        DefaultPacket(arms[ai].packet), reader))

\* packet_by_id matching the state and the id only: the first direction block of
\* the state is taken whatever the direction given
packet_by_id_any_direction(g, state, direction, id, reader) ==
    LET si == FirstArm({i \in 1..Len(g) : g[i].state = state})
    IN IF si = 0 THEN NoMatch(reader)
       ELSE LET arms == g[si].dirs[1].arms
                ai == FirstArm({i \in 1..Len(arms) : arms[i].id = id})
            IN IF ai = 0 THEN NoMatch(reader)
               ELSE matched(packet_read_from_stream(arms[ai].packet,
                                                    DefaultPacket(arms[ai].packet), reader))

\* Protocol::packet_by_id(state, direction, id, reader)
packet_by_id(g, state, direction, id, reader) ==
    LET si == FirstArm({i \in 1..Len(g) : g[i].state = state})
    IN IF si = 0 THEN NoMatch(reader)
       ELSE LET dirs == g[si].dirs
                di == FirstArm({i \in 1..Len(dirs) : dirs[i].direction = direction})
            IN IF di = 0 THEN NoMatch(reader)
               ELSE LET arms == dirs[di].arms
                        ai == FirstArm({i \in 1..Len(arms) : arms[i].id = id})
                    IN IF ai = 0 THEN NoMatch(reader)
                       ELSE matched(
                                packet_read_from_stream(arms[ai].packet,
                                                        DefaultPacket(arms[ai].packet), reader))

\* impl Packet for $packet { const PACKET_ID: i32 = $id; }
PACKET_ID(g, name) ==
    LET es == Entries(g)
    IN es[CHOOSE i \in 1..Len(es) : es[i].packet.name = name].id

\* packet_id reporting the record's first field when it has one named test
packet_id_from_field(g, self) ==
    IF "test" \in DOMAIN self.f THEN self.f.test ELSE PACKET_ID(g, self.name)

\* Packet::packet_id(&self)
packet_id(g, self) == PACKET_ID(g, self.name)

(***************************************************************************)
(* Segment for every type as a value of its own: the integers, Option<T>    *)
(* and Box<T> (implementation/mod.rs), generated records, and               *)
(* LenPrefixed.  Integer values are kept within -2^31 .. 2^31-1.            *)
(***************************************************************************)
\* the struct HandshakingPacket of the test grammar, as a Segment
HandshakingPk == Pk("HandshakingPacket", HandshakingFields)

LenPrefixedU8 == "LenPrefixed<u8,u8>"

OptionTypes == {"Option<u8>", "Option<i16>", "Option<HandshakingPacket>"}

BoxTypes == {"Box<u8>", "Box<i16>", "Box<HandshakingPacket>"}

SegTypes == PrimTypes \cup {"HandshakingPacket", LenPrefixedU8} \cup OptionTypes \cup BoxTypes

\* the T of Option<T> and Box<T>
Inner(ty) ==
    CASE ty \in {"Option<u8>", "Box<u8>"} -> "u8"
      [] ty \in {"Option<i16>", "Box<i16>"} -> "i16"
      [] ty \in {"Option<HandshakingPacket>", "Box<HandshakingPacket>"} -> "HandshakingPacket"

Box(x) == [boxed |-> x]

\* Default::default()
DefaultOf(ty) ==
    CASE ty \in PrimTypes -> Default(ty)
      [] ty = "HandshakingPacket" -> DefaultPacket(HandshakingPk)
      [] ty = LenPrefixedU8 -> <<>>
      [] ty \in OptionTypes -> None
      [] ty \in BoxTypes ->
            Box(IF Inner(ty) = "HandshakingPacket" THEN DefaultPacket(HandshakingPk)
                ELSE Default(Inner(ty)))

\* the io::Result, the receiver and the stream a generated read_from_stream leaves
read_outcome(r) == [res |-> r.res, val |-> r.self, reader |-> r.reader]

\* the io::Result and the stream a generated write_to_stream leaves
write_outcome(w) == [res |-> w.res, writer |-> w.writer]

\* <T as Segment>::read_from_stream for the T that Option and Box wrap here
T_read_from_stream(ty, cur, reader) ==
    CASE ty = "bool" -> bool_read_from_stream(cur, reader)
      [] ty = "u8" -> u8_read_from_stream(cur, reader)
      [] ty \in IntTypes \ {"u8"} -> int_read_from_stream(ty, cur, reader)
      [] ty = "HandshakingPacket" ->
            read_outcome(packet_read_from_stream(HandshakingPk, cur, reader))
      [] ty = LenPrefixedU8 -> impl_serialize_read_from_stream(cur, reader)

T_write_to_stream(ty, val, writer) ==
    CASE ty = "bool" -> bool_write_to_stream(val, writer)
      [] ty = "u8" -> u8_write_to_stream(val, writer)
      [] ty \in IntTypes \ {"u8"} -> int_write_to_stream(ty, val, writer)
      [] ty = "HandshakingPacket" ->
            write_outcome(packet_write_to_stream(HandshakingPk, val, writer))
      [] ty = LenPrefixedU8 -> impl_serialize_write_to_stream(val, writer)

\* Option_read_from_stream decoding into the value the receiver holds
Option_read_into_held(ty, cur, reader) ==
    Some_assign(cur, T_read_from_stream(Inner(ty),
                                        IF cur # None THEN cur[1] ELSE DefaultOf(Inner(ty)),
                                        reader))

\* impl<T: Segment> Segment for Option<T>
Option_read_from_stream(ty, cur, reader) ==
    Some_assign(cur, T_read_from_stream(Inner(ty), DefaultOf(Inner(ty)), reader))

Option_write_to_stream(ty, val, writer) ==
    IF val # None THEN T_write_to_stream(Inner(ty), val[1], writer)
    ELSE [res |-> "Ok", writer |-> writer]

\* what deref_mut() gave T's read to work on is what the Box holds afterwards
boxed(r) == [res |-> r.res, val |-> Box(r.val), reader |-> r.reader]

\* Box_read_from_stream decoding a new T and boxing it, instead of forwarding
Box_read_boxes_new(ty, cur, reader) ==
    boxed(T_read_from_stream(Inner(ty), DefaultOf(Inner(ty)), reader))

\* impl<T: Segment> Segment for Box<T>
Box_read_from_stream(ty, cur, reader) ==
    boxed(T_read_from_stream(Inner(ty), cur.boxed, reader))

Box_write_to_stream(ty, val, writer) == T_write_to_stream(Inner(ty), val.boxed, writer)

\* Segment::read_from_stream / write_to_stream on any of the types above
Seg_read_from_stream(ty, cur, reader) ==
    CASE ty \in OptionTypes -> Option_read_from_stream(ty, cur, reader)
      [] ty \in BoxTypes -> Box_read_from_stream(ty, cur, reader)
      [] OTHER -> T_read_from_stream(ty, cur, reader)

Seg_write_to_stream(ty, val, writer) ==
    CASE ty \in OptionTypes -> Option_write_to_stream(ty, val, writer)
      [] ty \in BoxTypes -> Box_write_to_stream(ty, val, writer)
      [] OTHER -> T_write_to_stream(ty, val, writer)

(***************************************************************************)
(* The state: the schema built from the grammar, and the last call made on  *)
(* it with its arguments and its outcome.                                   *)
(***************************************************************************)
VARIABLES
    proto,      \* the grammar given to define_protocol!
    compiled,   \* "none" before the macro is expanded, then "ok" or "error"
    op,         \* the last call: "none", "write", "read", "dispatch"
    packet0,    \* the record the call was made on, as it was before the call
    packet,     \* that record after the call (for a dispatch: the record returned)
    reader0,    \* the reader handed to the call
    reader,     \* the reader after the call
    writer,     \* the writer after the last write_to_stream
    result,     \* "Ok" or the io::Error kind the call returned
    some,       \* packet_by_id returned Ok(Some(_))
    key,        \* the (state, direction, id) given to packet_by_id
    rtrace,     \* predicate evaluations, codec calls and assignments of the last decode
    wtrace,     \* predicate evaluations and codec calls of the last encode
    sent,       \* the record whose encoding the reader was built from, if any
    seg,        \* the last Segment call made directly on a value that is no packet
    calls,      \* the calls in progress side by side, each with its own record and stream
    link        \* one stream carrying several packets: what was sent and what was received

vars == <<proto, compiled, op, packet0, packet, reader0, reader, writer, result, some,
          key, rtrace, wtrace, sent, seg, calls, link>>

NoKey == [state |-> "Handshaking", direction |-> "ClientBound", id |-> 0]

NoLink == [phase |-> "closed", g |-> <<>>, sent |-> <<>>, writer |-> EmptyWriter,
           reader |-> EmptyReader, got |-> <<>>]

NoSeg ==
    [op |-> "none", ty |-> "u8", before |-> 0, after |-> 0, reader0 |-> EmptyReader,
     reader |-> EmptyReader, writer |-> EmptyWriter, result |-> "Ok", sent |-> 0,
     suffix |-> <<>>, via |-> "none"]

Init ==
    /\ proto = <<>>
    /\ compiled = "none"
    /\ op = "none"
    /\ packet0 = NoPacket
    /\ packet = NoPacket
    /\ reader0 = EmptyReader
    /\ reader = EmptyReader
    /\ writer = EmptyWriter
    /\ result = "Ok"
    /\ some = FALSE
    /\ key = NoKey
    /\ rtrace = <<>>
    /\ wtrace = <<>>
    /\ sent = NoPacket
    /\ seg = NoSeg
    /\ calls = <<>>
    /\ link = NoLink

\* define_protocol!(...) is expanded on a grammar
DefineProtocol ==
    /\ compiled = "none"
    /\ \E g \in Grammars :
        /\ proto' = g
        /\ compiled' = define_protocol(g)
    /\ UNCHANGED <<seg, calls, link, op, packet0, packet, reader0, reader, writer, result, some, key,
                   rtrace, wtrace, sent>>

PacketOf(name) == CHOOSE pk \in PacketTypes(proto) : pk.name = name

\* the outcome of v.write_to_stream(&mut w)
WriteCall(v, r) ==
    /\ op' = "write"
    /\ packet0' = v
    /\ packet' = r.self
    /\ writer' = r.writer
    /\ result' = r.res
    /\ wtrace' = r.trace

\* v.write_to_stream(&mut writer) on any record of the schema
WriteToStream ==
    /\ compiled = "ok"
    /\ op = "none"
    /\ \E pk \in PacketTypes(proto) : \E v \in Instances(pk) : \E w \in Writers :
        WriteCall(v, packet_write_to_stream(pk, v, w))
    /\ reader0' = EmptyReader
    /\ reader' = EmptyReader
    /\ some' = FALSE
    /\ key' = NoKey
    /\ rtrace' = <<>>
    /\ sent' = NoPacket
    /\ UNCHANGED <<seg, calls, link, proto, compiled>>

\* the outcome of recv.read_from_stream(&mut rd)
ReadReturn(recv, rd, r) ==
    /\ op' = "read"
    /\ packet0' = recv
    /\ packet' = r.self
    /\ reader0' = rd
    /\ reader' = r.reader
    /\ result' = r.res
    /\ rtrace' = r.trace
    /\ some' = FALSE
    /\ key' = NoKey

ReadCall(pk, recv, rd) == ReadReturn(recv, rd, packet_read_from_stream(pk, recv, rd))

\* recv.read_from_stream(&mut reader) on any receiver and any stream
ReadFromStream ==
    /\ compiled = "ok"
    /\ op = "none"
    /\ \E pk \in PacketTypes(proto) : \E recv \in Instances(pk) : \E rd \in Readers :
        ReadCall(pk, recv, rd)
    /\ writer' = EmptyWriter
    /\ wtrace' = <<>>
    /\ sent' = NoPacket
    /\ UNCHANGED <<seg, calls, link, proto, compiled>>

\* the bytes just written are read back into a default-constructed record
ReadWritten ==
    /\ compiled = "ok"
    /\ op = "write"
    /\ result = "Ok"
    /\ LET pk == PacketOf(packet.name)
       IN ReadCall(pk, DefaultPacket(pk), ReaderOver(writer.buf))
    /\ sent' = packet
    /\ UNCHANGED <<seg, calls, link, proto, compiled, writer, wtrace>>

\* the outcome of Proto::packet_by_id(s, d, id, &mut rd)
DispatchReturn(s, d, id, rd, r) ==
    /\ op' = "dispatch"
    /\ key' = [state |-> s, direction |-> d, id |-> id]
    /\ packet0' = NoPacket
    /\ packet' = r.p
    /\ some' = r.some
    /\ reader0' = rd
    /\ reader' = r.reader
    /\ result' = r.res
    /\ rtrace' = r.trace

DispatchCall(s, d, id, rd) == DispatchReturn(s, d, id, rd, packet_by_id(proto, s, d, id, rd))

\* Proto::packet_by_id(state, direction, id, &mut reader) on any key and any stream
PacketById ==
    /\ compiled = "ok"
    /\ op = "none"
    /\ \E s \in State : \E d \in Direction : \E id \in Ids : \E rd \in Readers :
        DispatchCall(s, d, id, rd)
    /\ writer' = EmptyWriter
    /\ wtrace' = <<>>
    /\ sent' = NoPacket
    /\ UNCHANGED <<seg, calls, link, proto, compiled>>

\* the bytes just written are dispatched under a key the written record is registered at
PacketByIdWritten ==
    /\ compiled = "ok"
    /\ op = "write"
    /\ result = "Ok"
    /\ LET es == Entries(proto)
       IN \E i \in 1..Len(es) :
            /\ es[i].packet.name = packet.name
            /\ DispatchCall(es[i].state, es[i].direction, es[i].id, ReaderOver(writer.buf))
    /\ sent' = packet
    /\ UNCHANGED <<seg, calls, link, proto, compiled, writer, wtrace>>

\* the caller drops the record and the streams of the last call
Discard ==
    /\ op # "none"
    /\ op' = "none"
    /\ packet0' = NoPacket
    /\ packet' = NoPacket
    /\ reader0' = EmptyReader
    /\ reader' = EmptyReader
    /\ writer' = EmptyWriter
    /\ result' = "Ok"
    /\ some' = FALSE
    /\ key' = NoKey
    /\ rtrace' = <<>>
    /\ wtrace' = <<>>
    /\ sent' = NoPacket
    /\ UNCHANGED <<seg, calls, link, proto, compiled>>

Next ==
    \/ DefineProtocol
    \/ WriteToStream
    \/ ReadFromStream
    \/ ReadWritten
    \/ PacketById
    \/ PacketByIdWritten
    \/ Discard

Spec == Init /\ [][Next]_vars

(***************************************************************************)
(* Properties.                                                              *)
(***************************************************************************)
\* a field absent under its condition holds its type's default
InternallyConsistent(pk, v) ==
    \A i \in 1..Len(pk.fields) :
        ~EvalCondition(pk.fields[i].cond, v.f) => v.f[pk.fields[i].name] = Default(pk.fields[i].ty)

RoundTripRead == op = "read" /\ sent.name # "None"

RoundTripDispatch == op = "dispatch" /\ sent.name # "None"

\* C1: a record written with write_to_stream and read back into a
\* default-constructed record is the same record, field for field, and as many
\* bytes are read as were written.
RoundTripLaw ==
    (RoundTripRead /\ InternallyConsistent(PacketOf(sent.name), sent))
        => /\ result = "Ok"
           /\ packet = sent
           /\ reader.pos = Len(writer.buf)

RegisteredAt(g, k) ==
    LET es == Entries(g)
    IN {i \in 1..Len(es) :
           /\ es[i].state = k.state
           /\ es[i].direction = k.direction
           /\ es[i].id = k.id}

\* C2: a grammar that declares one opcode twice in one (state, direction)
\* block is rejected by define_protocol!, so a built schema maps each
\* (state, direction, opcode) to at most one record.
DispatchUniqueness ==
    compiled = "ok" =>
        \A s \in State : \A d \in Direction : \A id \in Ids :
            Cardinality(RegisteredAt(proto, [state |-> s, direction |-> d, id |-> id])) <= 1

\* C3: packet_by_id on a key with no registered record returns Ok(None) and
\* leaves the stream where it was.
UnrecognizedOpcode ==
    (op = "dispatch" /\ RegisteredAt(proto, key) = {})
        => /\ result = "Ok"
           /\ ~some
           /\ packet = NoPacket
           /\ reader = reader0
           /\ rtrace = <<>>

\* a negative opcode on a stream whose first read would fail
UnrecognizedOpcodeWitness ==
    /\ op = "dispatch"
    /\ RegisteredAt(proto, key) = {}
    /\ key.id < 0
    /\ Len(reader0.data) > 0
    /\ reader0.failAt = 0
    /\ result = "Ok"

\* the error the stream reports at the position the reader stopped at
StreamError(rd) == IF rd.failAt = rd.pos THEN "Other" ELSE "UnexpectedEof"

AssignedFields(trace) == {trace[k].field : k \in {j \in 1..Len(trace) : trace[j].kind = "assign"}}

\* C4: packet_by_id on a registered key decodes a default-constructed record
\* of the type registered there and returns Ok(Some(case)) exactly when the
\* decode succeeded; a failed decode returns its error and no packet.
RegisteredDispatch ==
    (op = "dispatch" /\ RegisteredAt(proto, key) # {})
        => /\ some <=> result = "Ok"
           /\ ~some => packet = NoPacket
           /\ result # "Ok" => result = StreamError(reader)
           /\ \E i \in RegisteredAt(proto, key) :
                LET pk == Entries(proto)[i].packet
                    r == packet_read_from_stream(pk, DefaultPacket(pk), reader0)
                IN /\ result = r.res
                   /\ reader = r.reader
                   /\ some => /\ packet = r.self
                              /\ packet.name = pk.name
                              /\ AssignedFields(rtrace) = 1..Len(pk.fields)

\* a decode that fails after some field was already read returns no packet
RegisteredDispatchWitness ==
    /\ op = "dispatch"
    /\ RegisteredAt(proto, key) # {}
    /\ result = "Other"
    /\ reader.pos > 0
    /\ ~some

\* C5: dispatching the bytes of an encoded record under the key the record is
\* registered at returns the union case holding an equal record.
DispatchRoundTrip ==
    (RoundTripDispatch /\ InternallyConsistent(PacketOf(sent.name), sent))
        => /\ result = "Ok"
           /\ some
           /\ packet.name = sent.name
           /\ packet = sent

FieldsOfKind(trace, kind) ==
    {trace[k].field : k \in {j \in 1..Len(trace) : trace[j].kind = kind}}

\* the wire form of one primitive value
Encoding(ty, val) == IF ty = "bool" THEN <<IF val THEN 1 ELSE 0>> ELSE <<val % 256>>

\* the encodings of the fields of v whose condition holds on v, in declaration order
RECURSIVE PresentBytes(_, _, _)
PresentBytes(pk, v, i) ==
    IF i > Len(pk.fields) THEN <<>>
    ELSE (IF EvalCondition(pk.fields[i].cond, v.f)
          THEN Encoding(pk.fields[i].ty, v.f[pk.fields[i].name]) ELSE <<>>)
         \o PresentBytes(pk, v, i + 1)

\* C6: a field whose condition is false contributes no byte to write_to_stream,
\* and in read_from_stream it consumes no byte and ends as its type's default,
\* whatever the receiver held before.
AbsentFields ==
    /\ op = "write" =>
        LET pk == PacketOf(packet0.name)
        IN /\ \A k \in 1..Len(wtrace) :
                (wtrace[k].kind = "pred" /\ ~wtrace[k].hit)
                    => /\ wtrace[k].field \notin FieldsOfKind(wtrace, "codec")
                       /\ IF k = Len(wtrace) THEN Len(writer.buf) = wtrace[k].pos
                          ELSE wtrace[k + 1].pos = wtrace[k].pos
           /\ result = "Ok" => writer.buf = PresentBytes(pk, packet0, 1)
    /\ op = "read" =>
        LET pk == PacketOf(packet0.name)
        IN /\ \A k \in 1..Len(rtrace) :
                (rtrace[k].kind = "pred" /\ ~rtrace[k].hit)
                    => /\ rtrace[k].field \notin FieldsOfKind(rtrace, "codec")
                       /\ k < Len(rtrace)
                       /\ rtrace[k + 1].pos = rtrace[k].pos
                       /\ packet.f[pk.fields[rtrace[k].field].name]
                            = Default(pk.fields[rtrace[k].field].ty)
           /\ reader.pos = Cardinality({k \in 1..Len(rtrace) :
                                           rtrace[k].kind = "codec" /\ rtrace[k].res = "Ok"})

\* a receiver holding {flag: true, value: nonzero} decodes a zero flag byte
\* with more bytes behind it
AbsentFieldsWitness ==
    /\ op = "read"
    /\ packet0.name = "FlagValue"
    /\ packet0.f.flag
    /\ packet0.f.value # 0
    /\ result = "Ok"
    /\ ~packet.f.flag
    /\ packet.f.value = 0
    /\ reader.pos < Len(reader0.data)

\* C7: the fields written for v, the fields read back from those bytes into a
\* default-constructed record, and the fields whose conditions hold on the
\* decoded record are the same set.
PredicateConsistency ==
    RoundTripRead =>
        LET pk == PacketOf(sent.name)
        IN /\ FieldsOfKind(wtrace, "codec") = FieldsOfKind(rtrace, "codec")
           /\ FieldsOfKind(rtrace, "codec")
                = {i \in 1..Len(pk.fields) : EvalCondition(pk.fields[i].cond, packet.f)}

\* C8: decoding the same bytes into two receivers of one record type that
\* differ in what they held before consumes the same bytes and leaves the two
\* receivers equal.
DecodeDeterminedByBytes ==
    (op = "read" /\ result = "Ok") =>
        LET pk == PacketOf(packet0.name)
        IN \A other \in Instances(pk) :
            LET r == packet_read_from_stream(pk, other, reader0)
            IN /\ r.res = result
               /\ r.reader.pos = reader.pos
               /\ r.self = packet

\* the event before trace[k] finished the field before trace[k]'s
FinishedBefore(trace, k, decoding) ==
    LET e == trace[k - 1]
    IN /\ e.field + 1 = trace[k].field
       /\ IF decoding THEN e.kind = "assign"
          ELSE \/ e.kind = "codec" /\ e.res = "Ok"
               \/ e.kind = "pred" /\ ~e.hit

OrderedTrace(trace, decoding) ==
    \A k \in 1..Len(trace) :
        LET e == trace[k]
        IN /\ e.kind = "pred" =>
                /\ IF k = 1 THEN e.field = 1 ELSE FinishedBefore(trace, k, decoding)
                /\ e.hit => k < Len(trace) /\ trace[k + 1].kind = "codec"
           /\ e.kind = "codec" =>
                /\ k > 1
                /\ trace[k - 1].kind = "pred"
                /\ trace[k - 1].field = e.field
                /\ trace[k - 1].hit
           /\ e.kind = "assign" =>
                /\ decoding
                /\ k > 1
                /\ trace[k - 1].field = e.field
                /\ \/ trace[k - 1].kind = "codec" /\ trace[k - 1].res = "Ok"
                   \/ trace[k - 1].kind = "pred" /\ ~trace[k - 1].hit

\* the record as each step of a decode saw it: only an assignment changes it,
\* and only in its own field
DecodeViews(pk, before, after, trace) ==
    /\ \A k \in 1..Len(trace) :
        LET prev == IF k = 1 THEN before.f ELSE trace[k - 1].view
        IN IF trace[k].kind = "assign"
           THEN \A n \in FieldNames(pk) :
                    n # pk.fields[trace[k].field].name => trace[k].view[n] = prev[n]
           ELSE trace[k].view = prev
    /\ after.f = IF trace = <<>> THEN before.f ELSE trace[Len(trace)].view

\* C9: fields are processed in declaration order, each condition is evaluated
\* once, right before its field's codec call; in a decode it sees the fields
\* before it as assigned and the others as the receiver held them, in an encode
\* every condition sees the same unmodified record.
EvaluationOrder ==
    /\ OrderedTrace(rtrace, TRUE)
    /\ OrderedTrace(wtrace, FALSE)
    /\ op = "read" =>
        LET pk == PacketOf(packet0.name)
        IN /\ DecodeViews(pk, packet0, packet, rtrace)
           /\ result = "Ok" => FieldsOfKind(rtrace, "pred") = 1..Len(pk.fields)
    /\ op = "write" =>
        LET pk == PacketOf(packet0.name)
        IN /\ \A k \in 1..Len(wtrace) : wtrace[k].view = packet0.f
           /\ packet = packet0
           /\ result = "Ok" => FieldsOfKind(wtrace, "pred") = 1..Len(pk.fields)

\* a receiver whose test2 was above 1 decodes all three fields
EvaluationOrderWitness ==
    /\ op = "read"
    /\ packet0.name = "HandshakingPacket"
    /\ packet0.f.test2 > 1
    /\ result = "Ok"
    /\ Len(rtrace) = 9
    /\ packet.f.test2 # packet0.f.test2

ErrorEndsTrace(trace, res, pos) ==
    \A k \in 1..Len(trace) :
        trace[k].res # "Ok" => /\ k = Len(trace)
                               /\ trace[k].kind = "codec"
                               /\ res = trace[k].res
                               /\ pos = trace[k].pos

\* C10: when a field's codec call fails, the routine returns that error at
\* once: no later condition or codec is evaluated and no further byte is
\* consumed or written.
FirstErrorWins ==
    /\ op \in {"read", "dispatch"} =>
        /\ ErrorEndsTrace(rtrace, result, reader.pos)
        /\ result # "Ok" => /\ rtrace # <<>>
                            /\ rtrace[Len(rtrace)].res = result
                            /\ result = StreamError(reader)
    /\ op = "write" =>
        /\ ErrorEndsTrace(wtrace, result, Len(writer.buf))
        /\ result # "Ok" => /\ wtrace # <<>>
                            /\ wtrace[Len(wtrace)].res = result
                            /\ result = writer.err
                            /\ Len(writer.buf) = writer.cap

\* the first field of a three-field record fails on a stream that holds more bytes
FirstErrorWinsWitness ==
    /\ op = "read"
    /\ Len(PacketOf(packet0.name).fields) = 3
    /\ result = "Other"
    /\ Len(rtrace) = 2
    /\ Len(reader0.data) > 1
    /\ reader.pos = 0

\* C11: a read_from_stream that returns an error leaves the receiver's fields
\* as they were before the call.
FailedReadKeepsReceiver ==
    (op = "read" /\ result # "Ok") => packet = packet0

(***************************************************************************)
(* Segment calls made directly on values that are no packets: a primitive,  *)
(* an Option, a Box, a bridged sequence, or the struct of a packet.         *)
(***************************************************************************)
pvars == <<proto, compiled, op, packet0, packet, reader0, reader, writer, result, some,
           key, rtrace, wtrace, sent>>

EdgeBytes == {0, 1, 127, 128, 255}

\* the values a call is made on
SegValues(ty) ==
    CASE ty = "bool" -> BOOLEAN
      [] ty = "u8" -> EdgeBytes
      [] ty = "i8" -> {-128, -1, 0, 1, 127}
      [] ty = "u16" -> {0, 1, 255, 256, 65535}
      [] ty = "i16" -> {-32768, -1, 0, 1, 258, 32767}
      [] ty = "u32" -> {0, 1, 65536, 16909060, 2147483647}
      [] ty = "i32" -> {-2147483647 - 1, -1, 0, 16909060, 2147483647}
      [] ty = "u64" -> {0, 1, 16909060, 2147483647}
      [] ty = "i64" -> {-2147483647 - 1, -1, 0, 1, 2147483647}
      [] ty = "HandshakingPacket" -> Instances(HandshakingPk)
      [] ty = LenPrefixedU8 -> SeqsUpTo(WireBytes, MaxLen - 1)
      [] ty = "Option<u8>" -> {None} \cup {Some(x) : x \in EdgeBytes}
      [] ty = "Option<i16>" -> {None} \cup {Some(x) : x \in {-32768, -1, 0, 258}}
      [] ty = "Option<HandshakingPacket>" ->
            {None} \cup {Some(x) : x \in Instances(HandshakingPk)}
      [] ty = "Box<u8>" -> {Box(x) : x \in EdgeBytes}
      [] ty = "Box<i16>" -> {Box(x) : x \in {-32768, -1, 0, 258}}
      [] ty = "Box<HandshakingPacket>" -> {Box(x) : x \in Instances(HandshakingPk)}

\* the type whose encoding fills the streams a type is read from
WireType(ty) == IF ty \in OptionTypes \cup BoxTypes THEN Inner(ty) ELSE ty

OneByteStreams ==
    {<<>>} \cup {<<b>> : b \in 0..255} \cup {<<b, 9>> : b \in {0, 1, 128, 255}}

WideStreams(ty) ==
    LET w == Width(ty)
        enc == {to_be_bytes(v, w) : v \in SegValues(ty)}
    IN {SubSeq(e, 1, k) : e \in enc, k \in 0..w}
       \cup {e \o <<9>> : e \in enc}
       \cup (IF w = 2 THEN {<<a, b>> : a \in EdgeBytes, b \in EdgeBytes} ELSE {})

StreamsOf(ty) ==
    LET t == WireType(ty)
    IN CASE t \in {"bool", "u8", "i8"} -> OneByteStreams
         [] t \in PrimTypes \ {"bool", "u8", "i8"} -> WideStreams(t)
         [] t = LenPrefixedU8 ->
                SeqsUpTo(WireBytes, MaxLen) \cup {<<2, 0>>, <<3, 1, 1>>, <<2, 1, 0, 9>>}
         [] t = "HandshakingPacket" -> SeqsUpTo(WireBytes, MaxLen)

SegReaders(ty) ==
    {[data |-> d, pos |-> 0, failAt |-> k] : d \in StreamsOf(ty), k \in {NoFault, 0, 1}}

SegWriters ==
    {[buf |-> <<>>, cap |-> c, err |-> e] :
        c \in (0..(MaxCap + 1)) \cup {7, 9}, e \in {"WriteZero", "Other"}}

Unbounded == [buf |-> <<>>, cap |-> 16, err |-> "WriteZero"]

\* the call record once write_to_stream has returned
Written(call, r) == [call EXCEPT !.writer = r.writer, !.result = r.res]

\* v.write_to_stream(&mut writer)
SegmentWrite ==
    /\ seg.op = "none"
    /\ LET writers == SegWriters
       IN \E ty \in SegTypes : \E v \in SegValues(ty) : \E w \in writers :
            seg' = Written([NoSeg EXCEPT !.op = "write", !.ty = ty, !.before = v,
                                         !.after = v],
                           Seg_write_to_stream(ty, v, w))
    /\ UNCHANGED <<pvars, calls, link>>

\* the call record once read_from_stream has returned
Decoded(call, r) == [call EXCEPT !.after = r.val, !.reader = r.reader, !.result = r.res]

SegReadCall(ty, cur, rd, sent_, suffix, via) ==
    seg' = Decoded([seg EXCEPT !.op = "read", !.ty = ty, !.before = cur, !.reader0 = rd,
                               !.sent = sent_, !.suffix = suffix, !.via = via],
                   Seg_read_from_stream(ty, cur, rd))

\* cur.read_from_stream(&mut reader) on any receiver and any stream
SegmentRead ==
    /\ seg.op = "none"
    /\ \E ty \in SegTypes :
        LET values == SegValues(ty)
            readers == SegReaders(ty)
        IN \E cur \in values : \E rd \in readers :
                SegReadCall(ty, cur, rd, 0, <<>>, "stream")
    /\ UNCHANGED <<pvars, calls, link>>

\* the bytes just written, with or without more bytes after them, are read back
SegmentReadWritten ==
    /\ seg.op = "write"
    /\ seg.result = "Ok"
    /\ \E cur \in SegValues(seg.ty) : \E suffix \in {<<>>, <<9>>, <<0, 1>>} :
        SegReadCall(seg.ty, cur, ReaderOver(seg.writer.buf \o suffix), seg.before, suffix,
                    "written")
    /\ UNCHANGED <<pvars, calls, link>>

\* the value just decoded is written out again
SegmentReencode ==
    /\ seg.op = "read"
    /\ seg.result = "Ok"
    /\ seg' = Written([seg EXCEPT !.op = "reencode"],
                       Seg_write_to_stream(seg.ty, seg.after, Unbounded))
    /\ UNCHANGED <<pvars, calls, link>>

\* the caller drops the value and the streams of the last call
SegmentDiscard ==
    /\ seg.op # "none"
    /\ seg' = NoSeg
    /\ UNCHANGED <<pvars, calls, link>>

SegmentNext ==
    \/ SegmentWrite
    \/ SegmentRead
    \/ SegmentReadWritten
    \/ SegmentReencode
    \/ SegmentDiscard

SegmentSpec == Init /\ [][SegmentNext]_vars

\* the bytes the reader has not consumed
Unread(rd) == SubSeq(rd.data, rd.pos + 1, Len(rd.data))

WrittenBack == seg.op = "read" /\ seg.via = "written"

\* C12: for bool, u8, i8, u16, i16, u32, i32, u64, i64 and every value x of the
\* type, write_to_stream produces exactly 1, 1, 1, 2, 2, 4, 4, 8, 8 bytes, and
\* read_from_stream on those bytes consumes exactly that many, leaves the bytes
\* after them unread, and yields x.
PrimitiveSizes ==
    {<<"bool", 1>>, <<"u8", 1>>, <<"i8", 1>>, <<"u16", 2>>, <<"i16", 2>>, <<"u32", 4>>,
     <<"i32", 4>>, <<"u64", 8>>, <<"i64", 8>>}

PrimitiveContract ==
    seg.ty \in PrimTypes =>
        /\ (seg.op = "write" /\ seg.result = "Ok") =>
                <<seg.ty, Len(seg.writer.buf)>> \in PrimitiveSizes
        /\ WrittenBack =>
                /\ seg.result = "Ok"
                /\ <<seg.ty, seg.reader.pos>> \in PrimitiveSizes
                /\ seg.reader.pos = Len(seg.writer.buf)
                /\ Unread(seg.reader) = seg.suffix
                /\ seg.after = seg.sent

PrimitiveContractWitness ==
    /\ WrittenBack
    /\ seg.ty = "i64"
    /\ seg.sent = -1
    /\ seg.before = 1
    /\ seg.suffix = <<9>>
    /\ seg.result = "Ok"

FromStream == seg.via = "stream"

\* C13: read_from_stream for bool consumes exactly one byte and yields false for
\* the byte 0 and true for every byte 1..255; write_to_stream writes the single
\* byte 0 for false and 1 for true; re-encoding a boolean decoded from any nonzero
\* byte yields the byte 1.
BoolWireFormat ==
    seg.ty = "bool" =>
        /\ (seg.op = "read" /\ FromStream /\ seg.reader0.failAt = NoFault
                /\ seg.reader0.data # <<>>) =>
                /\ seg.result = "Ok"
                /\ seg.reader.pos = 1
                /\ seg.after = (seg.reader0.data[1] \in 1..255)
                /\ seg.after = ~(seg.reader0.data[1] = 0)
        /\ (seg.op = "write" /\ seg.result = "Ok") =>
                seg.writer.buf = (IF seg.before THEN <<1>> ELSE <<0>>)
        /\ (seg.op = "reencode" /\ FromStream) =>
                /\ seg.result = "Ok"
                /\ seg.writer.buf = (IF seg.reader0.data[1] = 0 THEN <<0>> ELSE <<1>>)

BoolWireFormatWitness ==
    /\ seg.ty = "bool"
    /\ seg.op = "reencode"
    /\ FromStream
    /\ seg.reader0.data = <<255, 9>>
    /\ seg.before = FALSE
    /\ seg.after = TRUE
    /\ seg.reader.pos = 1
    /\ seg.writer.buf = <<1>>

IntBits(ty) ==
    CASE ty \in {"u8", "i8"} -> 8
      [] ty \in {"u16", "i16"} -> 16
      [] ty \in {"u32", "i32"} -> 32
      [] ty \in {"u64", "i64"} -> 64

\* the byte of significance k (0 the least) of x mod 2^w, for -2^31 <= x < 2^31:
\* a negative x is x + 2^32 below bit 32 and all ones above it
TwosComplementByte(x, k) ==
    IF k >= 4 THEN (IF x < 0 THEN 255 ELSE 0)
    ELSE IF x >= 0 THEN (x \div (256 ^ k)) % 256
    ELSE LET y == x + 2147483647 + 1
         IN ((y \div (256 ^ k)) % 256) + (IF k = 3 THEN 128 ELSE 0)

MostSignificantFirst(x, n) == [j \in 1..n |-> TwosComplementByte(x, n - j)]

InRange(x, ty) ==
    CASE ty = "u8" -> x \in 0..255
      [] ty = "i8" -> x \in -128..127
      [] ty = "u16" -> x \in 0..65535
      [] ty = "i16" -> x \in -32768..32767
      [] ty \in {"u32", "u64"} -> x >= 0
      [] OTHER -> TRUE

\* C14: for every fixed-width integer type of width w, write_to_stream emits the
\* w/8 bytes of the value most significant byte first, a signed x as x mod 2^w,
\* and read_from_stream is the inverse of that mapping on every w/8-byte input.
IntegerWireFormat ==
    seg.ty \in IntTypes =>
        LET n == IntBits(seg.ty) \div 8
        IN /\ (seg.op = "write" /\ seg.result = "Ok") =>
                    seg.writer.buf = MostSignificantFirst(seg.before, n)
           /\ (seg.op = "read" /\ FromStream /\ seg.reader0.failAt = NoFault
                    /\ Len(seg.reader0.data) >= n) =>
                    /\ seg.result = "Ok"
                    /\ InRange(seg.after, seg.ty)
                    /\ MostSignificantFirst(seg.after, n) = SubSeq(seg.reader0.data, 1, n)
           /\ (seg.op = "reencode" /\ FromStream) =>
                    seg.writer.buf = SubSeq(seg.reader0.data, 1, n)

IntegerWireFormatWitness ==
    /\ seg.ty = "i16"
    /\ seg.op = "read"
    /\ FromStream
    /\ seg.reader0.data = <<255, 128>>
    /\ seg.reader0.failAt = NoFault
    /\ seg.result = "Ok"
    /\ seg.after = -128

ByteCount(ty) == CHOOSE n \in {1, 2, 4, 8} : <<ty, n>> \in PrimitiveSizes

\* C15: for every primitive type, read_from_stream on a stream holding fewer
\* bytes than the type's width, the empty stream included, returns an error and
\* leaves the receiver's value as it was before the call.
ShortRead ==
    (seg.ty \in PrimTypes /\ seg.op = "read"
        /\ Len(seg.reader0.data) < ByteCount(seg.ty)) =>
        /\ seg.result # "Ok"
        /\ seg.reader0.failAt = NoFault => seg.result = "UnexpectedEof"
        /\ seg.after = seg.before

ShortReadWitness ==
    /\ seg.ty = "u32"
    /\ seg.op = "read"
    /\ seg.reader0.data = <<1, 2, 3>>
    /\ seg.reader0.failAt = NoFault
    /\ seg.before = 65536
    /\ seg.after = 65536
    /\ seg.result = "UnexpectedEof"

\* the writer as it was handed to the call
Writer0 == [seg.writer EXCEPT !.buf = <<>>]

\* C16: read_from_stream on an Option<T> decodes a T into a fresh default T, not
\* into the value held before; on success the receiver is Some of it whatever it
\* held, on failure the receiver is unchanged.  write_to_stream writes exactly
\* the inner value's encoding for Some, and nothing, successfully, for None.
OptionCodec ==
    seg.ty \in OptionTypes =>
        /\ seg.op = "read" =>
                LET t == T_read_from_stream(Inner(seg.ty), DefaultOf(Inner(seg.ty)),
                                            seg.reader0)
                IN /\ seg.result = t.res
                   /\ seg.reader = t.reader
                   /\ seg.result = "Ok" => seg.after = <<t.val>>
                   /\ seg.result # "Ok" => seg.after = seg.before
        /\ (seg.op = "write" /\ seg.before = <<>>) =>
                /\ seg.result = "Ok"
                /\ seg.writer.buf = <<>>
        /\ (seg.op = "write" /\ seg.before # <<>>) =>
                LET w == T_write_to_stream(Inner(seg.ty), seg.before[1], Writer0)
                IN /\ seg.result = w.res
                   /\ seg.writer = w.writer

OptionCodecWitness ==
    /\ seg.ty = "Option<HandshakingPacket>"
    /\ seg.op = "read"
    /\ seg.before # <<>>
    /\ seg.before[1].f.test2 > 1
    /\ seg.reader0.data = <<1, 1, 0>>
    /\ seg.result = "Ok"
    /\ seg.after[1].f.test2 = 0
    /\ seg.reader.pos = 2

\* C17: for every Option<T> value o the bytes write_to_stream produces for o are
\* exactly the bytes read_from_stream consumes, and decoding them yields o; stated
\* here for o = None, whatever follows the written bytes in the stream.
OptionRoundTrip ==
    (seg.ty \in OptionTypes /\ WrittenBack /\ seg.sent = <<>>) =>
        /\ seg.result = "Ok"
        /\ seg.reader.pos = Len(seg.writer.buf)
        /\ seg.after = seg.sent

\* C18: a Box<T> reads and writes exactly the same bytes, returns the same result
\* and ends in the same inner value as the wrapped T would on the same stream.
BoxTransparency ==
    seg.ty \in BoxTypes =>
        /\ seg.op = "read" =>
                LET t == T_read_from_stream(Inner(seg.ty), seg.before.boxed, seg.reader0)
                IN /\ seg.result = t.res
                   /\ seg.reader = t.reader
                   /\ seg.after.boxed = t.val
        /\ seg.op = "write" =>
                LET w == T_write_to_stream(Inner(seg.ty), seg.before.boxed, Writer0)
                IN /\ seg.result = w.res
                   /\ seg.writer = w.writer

BoxTransparencyWitness ==
    /\ seg.ty = "Box<HandshakingPacket>"
    /\ seg.op = "read"
    /\ seg.before.boxed.f.test2 > 1
    /\ seg.reader0.data = <<1, 1, 0>>
    /\ seg.reader0.failAt = NoFault
    /\ seg.result = "Ok"
    /\ seg.after.boxed.f.test2 = 1
    /\ seg.reader.pos = 3

\* C19: decoding a length-prefixed sequence whose length prefix exceeds the
\* number of elements left in the stream fails with an error and returns no
\* truncated sequence; an empty sequence, encoded and then decoded, is an empty
\* sequence.
LenPrefixedBoundary ==
    seg.ty = LenPrefixedU8 =>
        /\ (seg.op = "read" /\ seg.reader0.data # <<>>
                /\ seg.reader0.data[1] > Len(seg.reader0.data) - 1) =>
                /\ seg.result = "Other"
                /\ seg.after = seg.before
        /\ (WrittenBack /\ seg.sent = <<>>) =>
                /\ seg.result = "Ok"
                /\ seg.after = <<>>
                /\ Unread(seg.reader) = seg.suffix

LenPrefixedBoundaryWitness ==
    /\ seg.ty = LenPrefixedU8
    /\ seg.op = "read"
    /\ seg.reader0.data = <<3, 1, 1>>
    /\ seg.reader0.failAt = NoFault
    /\ seg.before = <<1>>
    /\ seg.after = <<1>>
    /\ seg.reader.pos = 3
    /\ seg.result = "Other"

(***************************************************************************)
(* Calls running side by side.  Each call has its own record and its own    *)
(* stream and advances one generated statement at a time: packet_by_id's    *)
(* match, then one field statement per step, then the return.               *)
(***************************************************************************)
NoPk == Pk("None", <<>>)

\* the three nested matches of packet_by_id: the struct of the first matching arm
match_arm(g, state, direction, id) ==
    LET si == FirstArm({i \in 1..Len(g) : g[i].state = state})
    IN IF si = 0 THEN NoPk
       ELSE LET dirs == g[si].dirs
                di == FirstArm({i \in 1..Len(dirs) : dirs[i].direction = direction})
            IN IF di = 0 THEN NoPk
               ELSE LET arms == dirs[di].arms
                        ai == FirstArm({i \in 1..Len(arms) : arms[i].id = id})
                    IN IF ai = 0 THEN NoPk ELSE arms[ai].packet

\* the statement a call is at, executed on the call's own record and stream
call_step(c) ==
    IF c.kind = "dispatch" /\ c.i = 0
    THEN LET pk == match_arm(c.g, c.key.state, c.key.direction, c.key.id)
         IN IF pk = NoPk THEN [c EXCEPT !.done = TRUE, !.res = "Ok", !.some = FALSE]
            ELSE [c EXCEPT !.pk = pk, !.self = DefaultPacket(pk), !.i = 1]
    ELSE IF c.i > Len(c.pk.fields)
    THEN [c EXCEPT !.done = TRUE, !.res = "Ok", !.some = (c.kind = "dispatch")]
    ELSE IF c.kind = "write"
    THEN LET s2 == write_field(c.pk.fields[c.i], c.i,
                               [res |-> "Ok", self |-> c.self, writer |-> c.writer,
                                trace |-> <<>>])
         IN IF s2.res # "Ok"
            THEN [c EXCEPT !.done = TRUE, !.res = s2.res, !.writer = s2.writer]
            ELSE [c EXCEPT !.writer = s2.writer, !.i = @ + 1]
    ELSE LET s2 == read_field(c.pk.fields[c.i], c.i,
                              [res |-> "Ok", self |-> c.self, reader |-> c.reader,
                               trace |-> <<>>])
         IN IF s2.res # "Ok"
            THEN [c EXCEPT !.done = TRUE, !.res = s2.res, !.reader = s2.reader,
                           !.self = IF c.kind = "dispatch" THEN NoPacket ELSE s2.self]
            ELSE [c EXCEPT !.self = s2.self, !.reader = s2.reader, !.i = @ + 1]

\* both calls have begun and neither has returned
Overlapping(cs, c) ==
    \A d \in DOMAIN cs : d # c => (cs[d].steps > 0 /\ ~cs[d].done)

\* call_step keeping the record being decoded in one static per struct, which
\* the calls on that struct share
CallStep_shared_static(cs, c) ==
    LET n == [call_step(cs[c]) EXCEPT !.steps = @ + 1,
                                      !.overlapped = @ \/ Overlapping(cs, c)]
    IN [d \in DOMAIN cs |->
            IF d = c THEN n
            ELSE IF cs[d].pk.name = n.pk.name /\ cs[d].kind = "read" /\ n.kind = "read"
                    /\ ~cs[d].done
            THEN [cs[d] EXCEPT !.self = n.self]
            ELSE cs[d]]

\* one step of call c: nothing but cs[c] is read or written
CallStep(cs, c) ==
    [cs EXCEPT ![c] = [call_step(cs[c]) EXCEPT !.steps = @ + 1,
                                               !.overlapped = @ \/ Overlapping(cs, c)]]

ConcGrammars == {Proto_1_17_1, FlagGrammar}

ConcPackets ==
    {pk \in UNION {PacketTypes(g) : g \in ConcGrammars} :
        pk.name \in {"HandshakingPacket", "TestPacket", "FlagValue"}}

\* the struct with every field at its largest value
FullPacket(pk) ==
    [name |-> pk.name,
     f |-> [n \in FieldNames(pk) |-> IF FieldOf(pk, n).ty = "bool" THEN TRUE ELSE MaxByte]]

ConcSelves(pk) == {DefaultPacket(pk), FullPacket(pk)}

ConcReaders ==
    {ReaderOver(d) : d \in {<<>>, <<1>>, <<1, 0, 1>>, <<0, 1, 1>>}}
    \cup {[data |-> <<1, 1, 1>>, pos |-> 0, failAt |-> 1]}

ConcWriters ==
    {[buf |-> <<>>, cap |-> c, err |-> "WriteZero"] : c \in {0, 1, MaxCap}}

ConcKeys(g) ==
    LET es == Entries(g)
    IN {[state |-> es[1].state, direction |-> es[1].direction, id |-> k] :
            k \in {es[1].id, -1}}

NewCall(kind, g, k, pk, recv, rd, w) ==
    [kind |-> kind, g |-> g, key |-> k, pk |-> pk, self |-> recv, reader |-> rd,
     writer |-> w, res |-> "Ok", some |-> FALSE, i |-> IF kind = "dispatch" THEN 0 ELSE 1,
     done |-> FALSE, steps |-> 0, overlapped |-> FALSE,
     self0 |-> recv, reader0 |-> rd, writer0 |-> w]

\* the calls that can be begun, each with arguments of its own
NewCalls ==
    {NewCall("read", <<>>, NoKey, pk, recv, rd, EmptyWriter) :
        pk \in ConcPackets, recv \in UNION {ConcSelves(q) : q \in ConcPackets},
        rd \in ConcReaders}
    \cup {NewCall("write", <<>>, NoKey, pk, recv, EmptyReader, w) :
            pk \in ConcPackets, recv \in UNION {ConcSelves(q) : q \in ConcPackets},
            w \in ConcWriters}
    \cup UNION {{NewCall("dispatch", g, k, NoPk, NoPacket, rd, EmptyWriter) :
                    k \in ConcKeys(g), rd \in ConcReaders} : g \in ConcGrammars}

\* two threads each begin a call
ConcStart ==
    /\ calls = <<>>
    /\ \E c1 \in NewCalls : \E c2 \in NewCalls :
        /\ c1.kind \in {"read", "write"} => c1.self.name = c1.pk.name
        /\ c2.kind \in {"read", "write"} => c2.self.name = c2.pk.name
        /\ calls' = <<c1, c2>>
    /\ UNCHANGED <<pvars, seg, link>>

\* the scheduler lets one of the running calls execute its next statement
ConcStep ==
    /\ \E c \in DOMAIN calls :
        /\ ~calls[c].done
        /\ calls' = CallStep(calls, c)
    /\ UNCHANGED <<pvars, seg, link>>

\* both calls have returned and their arguments are dropped
ConcJoin ==
    /\ calls # <<>>
    /\ \A c \in DOMAIN calls : calls[c].done
    /\ calls' = <<>>
    /\ UNCHANGED <<pvars, seg, link>>

ConcNext ==
    \/ ConcStart
    \/ ConcStep
    \/ ConcJoin

ConcSpec == Init /\ [][ConcNext]_vars

\* what the call does when it runs alone, from its arguments to its return
RanAlone(c) ==
    CASE c.kind = "read" ->
            LET r == packet_read_from_stream(c.pk, c.self0, c.reader0)
            IN c.res = r.res /\ c.self = r.self /\ c.reader = r.reader
                /\ c.writer = c.writer0
      [] c.kind = "write" ->
            LET w == packet_write_to_stream(c.pk, c.self0, c.writer0)
            IN c.res = w.res /\ c.self = c.self0 /\ c.writer = w.writer
                /\ c.reader = c.reader0
      [] c.kind = "dispatch" ->
            LET r == packet_by_id(c.g, c.key.state, c.key.direction, c.key.id, c.reader0)
            IN c.res = r.res /\ c.some = r.some /\ c.self = r.p /\ c.reader = r.reader
                /\ c.writer = c.writer0

\* C20: when packet_by_id / read_from_stream / write_to_stream calls run with
\* arbitrarily interleaved steps, each on its own stream and record, every call
\* returns the same result and leaves its stream and record in the same state as
\* if it had run alone.
ConcurrentIndependence ==
    \A c \in DOMAIN calls : calls[c].done => RanAlone(calls[c])

ConcurrentIndependenceWitness ==
    /\ calls # <<>>
    /\ \A c \in DOMAIN calls :
            calls[c].done /\ calls[c].overlapped /\ calls[c].kind = "read"
    /\ calls[1].pk.name = "HandshakingPacket"
    /\ calls[2].pk.name = "HandshakingPacket"
    /\ calls[1].self0 # calls[2].self0
    /\ calls[1].res = "Ok"
    /\ calls[2].res = "UnexpectedEof"
    /\ calls[1].self # calls[1].self0

\* the entries of the grammar that declare the struct of this name
DeclaredAt(g, name) ==
    LET es == Entries(g)
    IN {i \in 1..Len(es) : es[i].packet.name = name}

\* C21: packet_id() returns the same constant for every instance of a record
\* type, whatever its fields hold and whatever was decoded into it; the constant
\* is the opcode the record is registered under, so a packet returned by
\* packet_by_id(state, direction, id) reports packet_id() = id.
OpcodeConstancy ==
    compiled = "ok" =>
        /\ op = "none" =>
                \A pk \in PacketTypes(proto) : \A v \in Instances(pk) :
                    packet_id(proto, v) = packet_id(proto, DefaultPacket(pk))
        /\ (op \in {"read", "write"}) =>
                LET es == Entries(proto)
                IN /\ packet_id(proto, packet) = packet_id(proto, packet0)
                   /\ \A i \in DeclaredAt(proto, packet.name) :
                        es[i].id = packet_id(proto, packet)
        /\ (op = "dispatch" /\ some) => packet_id(proto, packet) = key.id

\* a dispatched record whose first field holds another number than its opcode
OpcodeConstancyWitness ==
    /\ compiled = "ok"
    /\ op = "dispatch"
    /\ some
    /\ packet.name = "HandshakingPacket"
    /\ key.id = 0
    /\ packet.f.test = 1

\* C22: one opcode may be registered under several (state, direction) pairs with
\* different record types, as 0x00 is five times in the test grammar, and
\* packet_by_id returns the record type registered for the exact
\* (state, direction, id) given, never one registered under another state or
\* direction.
ExactTriple ==
    compiled = "ok" =>
        LET es == Entries(proto)
        IN /\ proto = Proto_1_17_1 =>
                /\ Cardinality({es[i].packet.name : i \in {j \in 1..Len(es) : es[j].id = 0}}) = 5
                /\ Cardinality({<<es[i].state, es[i].direction>> :
                                    i \in {j \in 1..Len(es) : es[j].id = 0}}) = 5
           /\ (op = "dispatch" /\ some) =>
                /\ DeclaredAt(proto, packet.name) # {}
                /\ DeclaredAt(proto, packet.name) \subseteq RegisteredAt(proto, key)
           /\ (op = "dispatch" /\ RegisteredAt(proto, key) = {}) => ~some

\* opcode 0 under Handshaking/ServerBound gives the ServerBound record, not the
\* ClientBound one declared before it
ExactTripleWitness ==
    /\ proto = Proto_1_17_1
    /\ op = "dispatch"
    /\ key = [state |-> "Handshaking", direction |-> "ServerBound", id |-> 0]
    /\ some
    /\ packet.name = "HandshakingPacketTwo"
    /\ packet.f.test = 1

\* C23: for a bridged type, read_from_stream replaces the whole receiver with the
\* externally decoded value on success; when the external decode or encode
\* fails, the call returns an io::Error of kind Other and the receiver is left
\* unchanged; an external failure is never reported as success.
ExternalBridge ==
    seg.ty = LenPrefixedU8 =>
        /\ seg.op = "read" =>
                LET e == Serializable_read_from(seg.reader0)
                IN /\ seg.reader = e.reader
                   /\ e.res = "Ok" => (seg.result = "Ok" /\ seg.after = e.val)
                   /\ e.res # "Ok" => (seg.result = "Other" /\ seg.after = seg.before)
        /\ seg.op = "write" =>
                LET e == Serializable_write_to(seg.before, Writer0)
                IN /\ seg.writer = e.writer
                   /\ seg.after = seg.before
                   /\ e.res = "Ok" => seg.result = "Ok"
                   /\ e.res # "Ok" => seg.result = "Other"

\* an encode stopped by a full writer that reports WriteZero
ExternalBridgeWitness ==
    /\ seg.ty = LenPrefixedU8
    /\ seg.op = "write"
    /\ Len(seg.before) = 2
    /\ seg.writer.cap = 1
    /\ seg.writer.err = "WriteZero"
    /\ seg.writer.buf = <<2>>
    /\ seg.result = "Other"

IsPrefix(a, b) == Len(a) <= Len(b) /\ a = SubSeq(b, 1, Len(a))

\* C24: the bytes a record's write_to_stream writes are exactly the encodings of
\* the fields whose predicate is true or absent, concatenated in declaration
\* order, with nothing before, between or after them, and the call leaves every
\* field of the record unchanged.
EncodeLayout ==
    op = "write" =>
        LET pk == PacketOf(packet0.name)
            layout == PresentBytes(pk, packet0, 1)
        IN /\ packet = packet0
           /\ result = "Ok" => writer.buf = layout
           /\ result # "Ok" => (IsPrefix(writer.buf, layout) /\ writer.buf # layout)
           /\ (result = "Ok" /\ pk.fields = <<>>) => writer.buf = <<>>

\* all three fields of a HandshakingPacket, each with another value
EncodeLayoutWitness ==
    /\ op = "write"
    /\ result = "Ok"
    /\ packet0.name = "HandshakingPacket"
    /\ packet0.f.test = 1
    /\ packet0.f.test2 = 2
    /\ packet0.f.test3 = 0
    /\ writer.buf = <<1, 2, 0>>

(***************************************************************************)
(* One stream carrying several packets: records are encoded one after       *)
(* another into one buffer, then packet_by_id is called on a reader over     *)
(* that buffer once per record, with the record's own triple.               *)
(***************************************************************************)
LinkGrammars == {g \in Grammars : define_protocol(g) = "ok"}

\* the records put on the stream: every u8 field 0 or the largest value
LinkValues(pk) ==
    {v \in Instances(pk) :
        /\ \A i \in 1..Len(pk.fields) :
              pk.fields[i].ty = "u8" => v.f[pk.fields[i].name] \in {0, MaxByte}
        /\ InternallyConsistent(pk, v)}

\* a protocol is chosen and a buffer is opened
LinkOpen ==
    /\ link.phase = "closed"
    /\ \E g \in LinkGrammars :
        link' = [NoLink EXCEPT !.phase = "sending", !.g = g,
                       !.writer = [buf |-> <<>>, cap |-> 3 * (MaxPackets + 1),
                                   err |-> "WriteZero"]]
    /\ UNCHANGED <<pvars, seg, calls>>

\* the link once the next record is on it, with the triple it is registered at
Sent(l, e, v, w) ==
    [l EXCEPT !.writer = w.writer,
              !.sent = Append(@, [key |-> [state |-> e.state, direction |-> e.direction,
                                           id |-> e.id],
                                  v |-> v, end |-> Len(w.writer.buf)])]

\* v.write_to_stream(&mut buffer) for the next record
LinkSend ==
    /\ link.phase = "sending"
    /\ Len(link.sent) < MaxPackets
    /\ LET es == Entries(link.g)
       IN \E i \in 1..Len(es) : \E v \in LinkValues(es[i].packet) :
            link' = Sent(link, es[i], v, packet_write_to_stream(es[i].packet, v, link.writer))
    /\ UNCHANGED <<pvars, seg, calls>>

\* the link once the next packet_by_id call has returned
Received(l, r) ==
    [l EXCEPT !.phase = "receiving", !.reader = r.reader,
              !.got = Append(@, [res |-> r.res, some |-> r.some, p |-> r.p,
                                 pos |-> r.reader.pos])]

\* the reader the calls share: over the whole buffer, where the last call left it
LinkReader(l) == IF l.got = <<>> THEN ReaderOver(l.writer.buf) ELSE l.reader

\* Proto::packet_by_id(state, direction, id, &mut reader) for the next record
LinkReceive ==
    /\ link.phase \in {"sending", "receiving"}
    /\ Len(link.got) < Len(link.sent)
    /\ LET k == link.sent[Len(link.got) + 1].key
       IN link' = Received(link, packet_by_id(link.g, k.state, k.direction, k.id,
                                              LinkReader(link)))
    /\ UNCHANGED <<pvars, seg, calls>>

\* the buffer and the records are dropped
LinkClose ==
    /\ link.phase # "closed"
    /\ link' = NoLink
    /\ UNCHANGED <<pvars, seg, calls>>

LinkNext ==
    \/ LinkOpen
    \/ LinkSend
    \/ LinkReceive
    \/ LinkClose

LinkSpec == Init /\ [][LinkNext]_vars

\* C25: when internally consistent records v1 .. vn are encoded one after another
\* onto one stream, n successive packet_by_id calls, each with the triple of its
\* record, return v1 .. vn in that order, and each call consumes exactly the
\* bytes of its own record.
BackToBack ==
    \A k \in 1..Len(link.got) :
        /\ link.got[k].res = "Ok"
        /\ link.got[k].some
        /\ link.got[k].p = link.sent[k].v
        /\ link.got[k].pos = link.sent[k].end

(***************************************************************************)
(* Proto_1_17: the records of v1_17.rs modelled above, written, read and    *)
(* dispatched on streams long enough for a Position.                        *)
(***************************************************************************)
\* a short stream, or seven zero bytes and then a short stream
Readers17 ==
    {[data |-> z \o t, pos |-> 0, failAt |-> k] :
        z \in {<<>>, <<0, 0, 0, 0, 0, 0, 0>>}, t \in SeqsUpTo(WireBytes, MaxLen), k \in {NoFault, 0}}

Writers17 ==
    {[buf |-> <<>>, cap |-> c, err |-> "WriteZero"] : c \in (0..MaxCap) \cup {8, 9, 10, 16}}

\* opcodes tried against Proto_1_17: those it registers, and two it does not
Ids17 == {-1, 0, 5, 6, 7, 52, 64, 93}

\* define_protocol!(pub Proto_1_17, "1.17", 755 {...}) is expanded
DefineProto17 ==
    /\ compiled = "none"
    /\ proto' = Proto_1_17
    /\ compiled' = define_protocol(Proto_1_17)
    /\ UNCHANGED <<seg, calls, link, op, packet0, packet, reader0, reader, writer, result, some, key,
                   rtrace, wtrace, sent>>

\* v.write_to_stream(&mut writer) on any record of Proto_1_17
WriteProto17 ==
    /\ compiled = "ok"
    /\ op = "none"
    /\ \E pk \in PacketTypes(proto) : \E v \in Instances(pk) : \E w \in Writers17 :
        WriteCall(v, packet_write_to_stream(pk, v, w))
    /\ reader0' = EmptyReader
    /\ reader' = EmptyReader
    /\ some' = FALSE
    /\ key' = NoKey
    /\ rtrace' = <<>>
    /\ sent' = NoPacket
    /\ UNCHANGED <<seg, calls, link, proto, compiled>>

\* recv.read_from_stream(&mut reader) on any record of Proto_1_17
ReadProto17 ==
    /\ compiled = "ok"
    /\ op = "none"
    /\ \E pk \in PacketTypes(proto) : \E recv \in Instances(pk) : \E rd \in Readers17 :
        ReadCall(pk, recv, rd)
    /\ writer' = EmptyWriter
    /\ wtrace' = <<>>
    /\ sent' = NoPacket
    /\ UNCHANGED <<seg, calls, link, proto, compiled>>

\* Proto_1_17::packet_by_id(state, direction, id, &mut reader)
DispatchProto17 ==
    /\ compiled = "ok"
    /\ op = "none"
    /\ \E s \in State : \E d \in Direction : \E id \in Ids17 : \E rd \in Readers17 :
        DispatchCall(s, d, id, rd)
    /\ writer' = EmptyWriter
    /\ wtrace' = <<>>
    /\ sent' = NoPacket
    /\ UNCHANGED <<seg, calls, link, proto, compiled>>

Proto17Next ==
    \/ DefineProto17
    \/ WriteProto17
    \/ ReadProto17
    \/ ReadWritten
    \/ DispatchProto17
    \/ PacketByIdWritten
    \/ Discard

Proto17Spec == Init /\ [][Proto17Next]_vars

\* C26: on Proto_1_17 every packet_by_id call, whatever the key and the stream,
\* returns Ok(None), Ok(Some(packet)) or Err(error), and so does every
\* write_to_stream of a record: no call panics, the one for
\* (Play, ClientBound, 0x05) SculkVibrationSignal included.
DispatcherTotality ==
    (proto = Proto_1_17 /\ op \in {"dispatch", "write"}) => result # "panic"

\* the fields declared before field i whose own presence has no condition
EarlierUnconditional(pk, i) ==
    {pk.fields[j].name : j \in {k \in 1..(i - 1) : pk.fields[k].cond = Always}}

WellFormed(pk) ==
    \A i \in 1..Len(pk.fields) : Reads(pk.fields[i].cond) \subseteq EarlierUnconditional(pk, i)

\* the predicate evaluations of a trace that returned
Evaluated(trace) == {k \in 1..Len(trace) : trace[k].kind = "pred" /\ trace[k].res = "Ok"}

\* C27: in every record of Proto_1_17 each presence predicate reads only fields
\* declared strictly earlier in the same record that are themselves always
\* present; so when the bytes written from a record are decoded, each predicate
\* evaluated on the partial record has the value it had on the record written.
SchemaWellFormed ==
    (compiled = "ok" /\ proto = Proto_1_17) =>
        /\ \A pk \in ConditionalRecords17 \cup PacketTypes(proto) : WellFormed(pk)
        /\ (op \in {"read", "dispatch"} /\ sent # NoPacket) =>
                LET pk == PacketOf(sent.name)
                IN \A k \in Evaluated(rtrace) :
                        rtrace[k].hit = EvalCondition(pk.fields[rtrace[k].field].cond, sent.f)

SchemaWellFormedWitness ==
    /\ proto = Proto_1_17
    /\ op = "read"
    /\ result = "Ok"
    /\ sent.name = "StopSound"
    /\ sent.f.flags = 2
    /\ sent.f.source = None
    /\ sent.f.sound = Some(<<1>>)
    /\ packet = sent
    /\ \E k \in Evaluated(rtrace) : rtrace[k].field = 3 /\ rtrace[k].hit

\* the records declared without a field list
FieldLess(g) == {pk \in PacketTypes(g) : pk.fields = <<>>}

\* C28: a record declared without a field list is read successfully from every
\* stream, an empty or a failing one included, without consuming a byte; it is
\* written successfully without writing a byte; and packet_by_id on its triple
\* returns Ok(Some(case)) and leaves the stream where it was.
FieldLessRecords ==
    compiled = "ok" =>
        /\ (op = "read" /\ PacketOf(packet0.name) \in FieldLess(proto)) =>
                /\ result = "Ok"
                /\ reader = reader0
                /\ packet = packet0
                /\ rtrace = <<>>
        /\ (op = "write" /\ PacketOf(packet0.name) \in FieldLess(proto)) =>
                /\ result = "Ok"
                /\ writer.buf = <<>>
                /\ wtrace = <<>>
        /\ (op = "dispatch" /\ RegisteredAt(proto, key) # {}
              /\ \A i \in RegisteredAt(proto, key) :
                    Entries(proto)[i].packet \in FieldLess(proto)) =>
                /\ result = "Ok"
                /\ some
                /\ \A i \in RegisteredAt(proto, key) :
                        packet = DefaultPacket(Entries(proto)[i].packet)
                /\ reader = reader0

FieldLessRecordsWitness ==
    /\ proto = Proto_1_17
    /\ op = "dispatch"
    /\ key = [state |-> "Status", direction |-> "ServerBound", id |-> 0]
    /\ reader0 = [data |-> <<>>, pos |-> 0, failAt |-> 0]
    /\ reader = reader0
    /\ result = "Ok"
    /\ some
    /\ packet.name = "StatusRequest"

\* the events of one kind in a trace
EventsOf(trace, kind) == {k \in 1..Len(trace) : trace[k].kind = kind}

\* one pass over n fields: each field's predicate and codec come up at most
\* once, in declaration order
OnePass(trace, n) ==
    \A kind \in {"pred", "codec"} :
        /\ Cardinality(EventsOf(trace, kind)) <= n
        /\ \A a, b \in EventsOf(trace, kind) :
                /\ trace[a].field \in 1..n
                /\ a < b => trace[a].field < trace[b].field

\* C29: read_from_stream and write_to_stream of a record with n declared fields
\* finish after at most n predicate evaluations and at most n field codec calls,
\* and packet_by_id finishes after at most one record decode; no field is gone
\* over twice.
BoundedWork ==
    compiled = "ok" =>
        /\ op = "read" => OnePass(rtrace, Len(PacketOf(packet0.name).fields))
        /\ op = "write" => OnePass(wtrace, Len(PacketOf(packet0.name).fields))
        /\ op = "dispatch" =>
                IF RegisteredAt(proto, key) = {} THEN rtrace = <<>>
                ELSE \E i \in RegisteredAt(proto, key) :
                        OnePass(rtrace, Len(Entries(proto)[i].packet.fields))

BoundedWorkWitness ==
    /\ op = "read"
    /\ packet0.name = "HandshakingPacket"
    /\ result = "Ok"
    /\ Cardinality(EventsOf(rtrace, "pred")) = 3
    /\ Cardinality(EventsOf(rtrace, "codec")) = 3

====
